---- MODULE Spec2Model ----
(***************************************************************************)
(* Creator_Agent: the theme generation pipeline.                           *)
(*   Orchestrator.handle -> ThemeAgent.handle -> LLMModelRunner            *)
(*   (generate_themes, _execute_inference, _call_openai_like,              *)
(*    _call_llama_cpp, _call_tipo, unload_model, _parse_json_result).      *)
(* Each request is a thread of control; the LLMModelRunner is one object   *)
(* shared by all requests (web/api/deps.py caches the Orchestrator).       *)
(***************************************************************************)
EXTENDS Integers, Sequences, FiniteSets, TLC

\* ---------------------------------------------------------------- bounds
NumThreads == 2
MaxRequests == 2
MaxCount == 2
MaxItems == 2
MaxTags == 3
MaxRaw == 3

\* ------------------------------------------------------- program constants
DefaultCount == 3
MainCtx == 4096
TipoCtx == 1024

Threads == 1..NumThreads
SeqThreads == {1}

None == "None"

\* ---------------------------------------------------------------- strings
\* A Python str is a sequence of symbols; a symbol is a word fragment, a
\* comma or a blank.
Comma == ","
Blank == " "

s_sky == <<"sky">>
s_a_comma_b == <<"a", ",", "b">>
s_pad_sea == <<" ", "sea">>

\* sep.join(parts)
RECURSIVE Join(_, _)
Join(sep, parts) ==
  IF parts = << >> THEN << >>
  ELSE IF Len(parts) = 1 THEN parts[1]
  ELSE parts[1] \o sep \o Join(sep, Tail(parts))

\* s.split(",")
RECURSIVE SplitFrom(_, _, _)
SplitFrom(s, i, cur) ==
  IF i > Len(s) THEN <<cur>>
  ELSE IF s[i] = Comma THEN <<cur>> \o SplitFrom(s, i + 1, << >>)
  ELSE SplitFrom(s, i + 1, Append(cur, s[i]))

SplitComma(s) == SplitFrom(s, 1, << >>)

\* s.strip()
RECURSIVE LStrip(_)
LStrip(s) ==
  IF s # << >> /\ Head(s) = Blank THEN LStrip(Tail(s)) ELSE s

RECURSIVE RStrip(_)
RStrip(s) ==
  IF s # << >> /\ s[Len(s)] = Blank THEN RStrip(SubSeq(s, 1, Len(s) - 1)) ELSE s

Strip(s) == LStrip(RStrip(s))

\* [t.strip() for t in s.split(",") if t.strip()]
RECURSIVE StripNonEmpty(_)
StripNonEmpty(parts) ==
  IF parts = << >> THEN << >>
  ELSE IF Strip(Head(parts)) # << >>
       THEN <<Strip(Head(parts))>> \o StripNonEmpty(Tail(parts))
       ELSE StripNonEmpty(Tail(parts))

SplitTags(s) == StripNonEmpty(SplitComma(s))

CommaBlank == <<Comma, Blank>>

Elems(l) == {l[i] : i \in 1..Len(l)}

\* str.lower() on one symbol
LowerSym(c) ==
  CASE c = "Sky" -> "sky"
    [] c = "LLAMA_CPP" -> "llama_cpp"
    [] c = "Watermark" -> "watermark"
    [] c = "<|GENERAL|>" -> "<|general|>"
    [] c = "Beach" -> "beach"
    [] OTHER -> c

Lower(s) == [i \in 1..Len(s) |-> LowerSym(s[i])]

\* ------------------------------------------------------------ TipoTagger
BAN_TAGS ==
  { <<"background">>, <<"name">>, <<"text">>, <<"joke">>, <<"costume">>,
    <<"alternative">>, <<"speech">>, <<"stickers">>, <<"hat">>,
    <<"signature">>, <<"watermark">>, <<"username">>,
    <<"artist", " ", "name">> }

SPECIAL_TOKENS ==
  { "<|special|>", "<|characters|>", "<|copyrights|>", "<|artist|>",
    "<|general|>", "<|generated|>", "<|quality|>", "<|meta|>",
    "<|rating|>", "<|extended|>" }

Brackets == {"(", ")", "[", "]"}
Backslash == "\\"

\* text.replace(token, "") for every special token
RemoveSpecial(s) == SelectSeq(s, LAMBDA c : c \notin SPECIAL_TOKENS)

\* re.sub(r"\\([()\[\]])", r"\1", text)
RECURSIVE Unescape(_)
Unescape(s) ==
  IF s = << >> THEN << >>
  ELSE IF Len(s) >= 2 /\ s[1] = Backslash /\ s[2] \in Brackets
       THEN <<s[2]>> \o Unescape(SubSeq(s, 3, Len(s)))
       ELSE <<s[1]>> \o Unescape(Tail(s))

\* [t.strip().lower() for t in text.split(",") if t.strip()]
RECURSIVE StripLowerNonEmpty(_)
StripLowerNonEmpty(parts) ==
  IF parts = << >> THEN << >>
  ELSE IF Strip(Head(parts)) # << >>
       THEN <<Lower(Strip(Head(parts)))>> \o StripLowerNonEmpty(Tail(parts))
       ELSE StripLowerNonEmpty(Tail(parts))

\* a list handed on as it is
KeepAll(l) == l

\* order-preserving de-duplication (first occurrence kept)
RECURSIVE DedupFrom(_, _)
DedupFrom(l, seen) ==
  IF l = << >> THEN << >>
  ELSE IF Head(l) \in seen THEN DedupFrom(Tail(l), seen)
       ELSE <<Head(l)>> \o DedupFrom(Tail(l), seen \cup {Head(l)})

Dedup(l) == DedupFrom(l, {})

parse_output(raw_output) ==
  LET text == Unescape(RemoveSpecial(raw_output))
      tags == StripLowerNonEmpty(SplitComma(text))
      final_tags == SelectSeq(tags, LAMBDA t : t \notin BAN_TAGS)
  IN  Dedup(final_tags)

\* a merge that compares the base tags as they are written
MergeTagsCaseSensitive(base_tags_list, final_tags_list) ==
  LET first == Dedup(base_tags_list)
  IN  first \o DedupFrom(final_tags_list, {first[i] : i \in 1..Len(first)})

\* the merge of _call_tipo: base tags lower-cased first, then the parsed tags
MergeTags(base_tags_list, final_tags_list) ==
  LET lowered == [i \in 1..Len(base_tags_list) |-> Lower(base_tags_list[i])]
      first == Dedup(lowered)
  IN  first \o DedupFrom(final_tags_list, {first[i] : i \in 1..Len(first)})

\* the str a successful _call_tipo returns for base_tags and the model's text
TipoMerged(base_tags, result_text) ==
  Join(CommaBlank, MergeTags(SplitTags(base_tags), parse_output(result_text)))

\* generate_themes: keywords of a theme after _call_tipo returned generated_tags
KeywordsAfterTipo(keywords, generated_tags) ==
  IF generated_tags # << >> THEN SplitTags(generated_tags) ELSE keywords

\* what the tagger model may answer
TipoOutputs ==
  { <<"sunset">>,
    <<"Sky", ",", " ", "<|general|>", "watermark", ",", "sunset">> }

\* ------------------------------------------------------ extraction output
\* A JSON value: t is its type; s the text of a string or scalar; l the
\* elements of a list (each a str).
JStr(x) == [t |-> "str", s |-> x, l |-> << >>]
JList(x) == [t |-> "list", s |-> << >>, l |-> x]
JAbsent == [t |-> "absent", s |-> << >>, l |-> << >>]

\* An element of the parsed array: an object with the four keys, or not an
\* object at all.
JObj(title, concept, keywords, mood) ==
  [isdict |-> TRUE, title |-> title, short_concept |-> concept,
   keywords |-> keywords, mood |-> mood]
JScalar ==
  [isdict |-> FALSE, title |-> JAbsent, short_concept |-> JAbsent,
   keywords |-> JAbsent, mood |-> JAbsent]

ItemA == JObj(JStr(<<"A">>), JStr(<<"x">>), JList(<<s_sky>>), JList(<< >>))
ItemB == JObj(JStr(<<"B">>), JStr(<<"y">>), JStr(s_a_comma_b), JList(<<s_sky>>))
ItemC == JObj(JAbsent, JAbsent, JList(<<s_pad_sea, s_sky>>), JAbsent)

RawItems == {ItemA, ItemB, ItemC, JScalar}

RECURSIVE SeqsUpTo(_, _)
SeqsUpTo(S, n) ==
  IF n = 0 THEN {<< >>}
  ELSE LET shorter == SeqsUpTo(S, n - 1)
       IN  shorter \cup {Append(q, x) : q \in shorter, x \in S}

\* What the extraction call may return, as json.loads sees it:
\*   "list"        a JSON array (items)
\*   "themes_str"  an object {"themes": "<text without brackets>"}
\*   "themes_num"  an object {"themes": <number>}
\*   "other"       any other JSON value
\*   "invalid"     text that stays unparseable after the repair attempt
JsonTexts ==
  [kind : {"list"}, items : SeqsUpTo(RawItems, MaxItems)]
    \cup [kind : {"themes_str", "themes_num", "other", "invalid"},
          items : {<< >>}]

NoText == [kind |-> "none", items |-> << >>]

\* str(item.get(key, default))
StrOr(v, default) == IF v.t = "absent" THEN default ELSE v.s

\* _ensure_str_list(item.get(key, []))
ensure_str_list(v) ==
  IF v.t = "absent" THEN << >>
  ELSE IF v.t = "list" THEN v.l
  ELSE <<v.s>>

Untitled == <<"Untitled">>

NormalizeItem(item) ==
  [title |-> StrOr(item.title, Untitled),
   short_concept |-> StrOr(item.short_concept, << >>),
   keywords |-> ensure_str_list(item.keywords),
   mood |-> ensure_str_list(item.mood)]

Max(a, b) == IF a >= b THEN a ELSE b
Min(a, b) == IF a <= b THEN a ELSE b

\* data[: max(count, 1)]
SliceCount(data, count) == SubSeq(data, 1, Min(Len(data), Max(count, 1)))

RECURSIVE NormalizeAll(_)
NormalizeAll(data) ==
  IF data = << >> THEN << >>
  ELSE IF Head(data).isdict
       THEN <<NormalizeItem(Head(data))>> \o NormalizeAll(Tail(data))
       ELSE NormalizeAll(Tail(data))

\* a parser that answers an undecodable text with an empty list
parse_json_result_lenient(json_text, count) ==
  IF json_text.kind \in {"invalid", "other", "themes_num", "themes_str"}
    THEN [ok |-> TRUE, exc |-> None, themes |-> << >>]
  ELSE [ok |-> TRUE, exc |-> None,
        themes |-> NormalizeAll(SliceCount(json_text.items, count))]

\* _parse_json_result: the normalized list, or the exception raised
parse_json_result(json_text, count) ==
  IF json_text.kind = "invalid"
    THEN [ok |-> FALSE, exc |-> "RuntimeError: JSON Parse Failed", themes |-> << >>]
  ELSE IF json_text.kind = "other"
    THEN [ok |-> FALSE, exc |-> "RuntimeError: Extracted JSON is not a list.",
          themes |-> << >>]
  ELSE IF json_text.kind = "themes_num"
    \* data = data["themes"]; data[: max(count, 1)] on a number
    THEN [ok |-> FALSE, exc |-> "TypeError: not subscriptable", themes |-> << >>]
  ELSE IF json_text.kind = "themes_str"
    \* the slice of a str iterates over characters: none is a dict
    THEN [ok |-> TRUE, exc |-> None, themes |-> << >>]
  ELSE [ok |-> TRUE, exc |-> None,
        themes |-> NormalizeAll(SliceCount(json_text.items, count))]

\* ------------------------------------------------- the text of the output
\* The extraction output as json.loads reads it: a sequence of tokens, each
\* a punctuation mark, a string literal or a number.
JNum(x) == [t |-> "num", s |-> x, l |-> << >>]

Punct(c) == [k |-> "p", v |-> <<c>>]
StrTok(x) == [k |-> "s", v |-> x]
NumTok(x) == [k |-> "n", v |-> x]

IsScalarTok(tok) == tok.k \in {"s", "n"}
ScalarOf(tok) == IF tok.k = "s" THEN JStr(tok.v) ELSE JNum(tok.v)

\* results of the decoder: the value, the position after it, or the message
\* of the JSONDecodeError
\* F applied to the value of x (x is evaluated once)
Once(x, F(_)) == CHOOSE out \in {F(v) : v \in {x}} : TRUE

Decoded(val, pos) == [ok |-> TRUE, val |-> val, pos |-> pos, err |-> None]
DecodeError(msg, pos) == [ok |-> FALSE, val |-> << >>, pos |-> pos, err |-> msg]

ExpectingValue == "Expecting value"
ExpectingDelimiter == "Expecting ',' delimiter"
ExpectingName == "Expecting property name enclosed in double quotes"
ExpectingColon == "Expecting ':' delimiter"
ExtraData == "Extra data"

RECURSIVE ListElem(_, _, _), ListAfter(_, _, _)
\* JSONArray of a field value: the str() of each scalar element
ListElem(text, i, acc) ==
  IF i > Len(text) \/ ~IsScalarTok(text[i]) THEN DecodeError(ExpectingValue, i)
  ELSE ListAfter(text, i + 1, Append(acc, text[i].v))

ListAfter(text, i, acc) ==
  IF i > Len(text) THEN DecodeError(ExpectingDelimiter, i)
  ELSE IF text[i] = Punct("]") THEN Decoded(JList(acc), i + 1)
  ELSE IF text[i] = Punct(",") THEN ListElem(text, i + 1, acc)
  ELSE DecodeError(ExpectingDelimiter, i)

ListValue(text, i) ==
  IF i <= Len(text) /\ text[i] = Punct("]") THEN Decoded(JList(<< >>), i + 1)
  ELSE ListElem(text, i, << >>)

NoMembers ==
  [isdict |-> TRUE, title |-> JAbsent, short_concept |-> JAbsent,
   keywords |-> JAbsent, mood |-> JAbsent, themes |-> JAbsent]

\* dict[key] = value for the keys the program reads
SetMember(obj, key, val) ==
  IF key = <<"title">> THEN [obj EXCEPT !.title = val]
  ELSE IF key = <<"short_concept">> THEN [obj EXCEPT !.short_concept = val]
  ELSE IF key = <<"keywords">> THEN [obj EXCEPT !.keywords = val]
  ELSE IF key = <<"mood">> THEN [obj EXCEPT !.mood = val]
  ELSE IF key = <<"themes">> THEN [obj EXCEPT !.themes = val]
  ELSE obj

\* an element of an array of themes as _parse_json_result sees it
ItemOf(obj) ==
  [isdict |-> TRUE, title |-> obj.title, short_concept |-> obj.short_concept,
   keywords |-> obj.keywords, mood |-> obj.mood]

\* the array under the key "themes"
JItems(items) == [t |-> "items", s |-> << >>, l |-> items]

RECURSIVE ObjKey(_, _, _), ObjAfter(_, _, _), ArrElem(_, _, _), ArrAfter(_, _, _)

ObjValue(text, i) ==
  IF i <= Len(text) /\ text[i] = Punct("}") THEN Decoded(NoMembers, i + 1)
  ELSE ObjKey(text, i, NoMembers)

\* JSONArray of themes: objects, or scalars, separated by commas
ArrElem(text, i, acc) ==
  IF i > Len(text) THEN DecodeError(ExpectingValue, i)
  ELSE IF IsScalarTok(text[i]) THEN ArrAfter(text, i + 1, Append(acc, JScalar))
  ELSE IF text[i] = Punct("{")
    THEN Once(ObjValue(text, i + 1),
              LAMBDA r : IF r.ok THEN ArrAfter(text, r.pos, Append(acc, ItemOf(r.val)))
                         ELSE r)
  ELSE IF text[i] = Punct("[")
    THEN Once(ListValue(text, i + 1),
              LAMBDA r : IF r.ok THEN ArrAfter(text, r.pos, Append(acc, JScalar))
                         ELSE r)
  ELSE DecodeError(ExpectingValue, i)

ArrAfter(text, i, acc) ==
  IF i > Len(text) THEN DecodeError(ExpectingDelimiter, i)
  ELSE IF text[i] = Punct("]") THEN Decoded(acc, i + 1)
  ELSE IF text[i] = Punct(",") THEN ArrElem(text, i + 1, acc)
  ELSE DecodeError(ExpectingDelimiter, i)

ArrValue(text, i) ==
  IF i <= Len(text) /\ text[i] = Punct("]") THEN Decoded(<< >>, i + 1)
  ELSE ArrElem(text, i, << >>)

\* the value of an object member: a string, a number, an array of scalars,
\* or, under the key "themes", an array of themes
MemberValue(text, i, key) ==
  IF i > Len(text) THEN DecodeError(ExpectingValue, i)
  ELSE IF IsScalarTok(text[i]) THEN Decoded(ScalarOf(text[i]), i + 1)
  ELSE IF text[i] = Punct("[") /\ key = <<"themes">>
    THEN Once(ArrValue(text, i + 1),
              LAMBDA r : IF r.ok THEN Decoded(JItems(r.val), r.pos) ELSE r)
  ELSE IF text[i] = Punct("[") THEN ListValue(text, i + 1)
  ELSE DecodeError(ExpectingValue, i)

\* JSONObject: "key" : value, separated by commas, closed by }
ObjKey(text, i, obj) ==
  IF i > Len(text) \/ text[i].k # "s" THEN DecodeError(ExpectingName, i)
  ELSE IF i + 1 > Len(text) \/ text[i + 1] # Punct(":")
    THEN DecodeError(ExpectingColon, i + 1)
  ELSE Once(MemberValue(text, i + 2, text[i].v),
            LAMBDA r : IF r.ok
                         THEN ObjAfter(text, r.pos, SetMember(obj, text[i].v, r.val))
                       ELSE r)

ObjAfter(text, i, obj) ==
  IF i > Len(text) THEN DecodeError(ExpectingDelimiter, i)
  ELSE IF text[i] = Punct("}") THEN Decoded(obj, i + 1)
  ELSE IF text[i] = Punct(",") THEN ObjKey(text, i + 1, obj)
  ELSE DecodeError(ExpectingDelimiter, i)

\* the value json.loads found, in the kinds _parse_json_result tells apart
AsJsonText(kind, items) == [kind |-> kind, items |-> items]

\* json.loads(text): the decoded value, or the JSONDecodeError
json_loads(text) ==
  IF text = << >> THEN DecodeError(ExpectingValue, 1)
  ELSE Once(IF text[1] = Punct("[") THEN ArrValue(text, 2)
            ELSE IF text[1] = Punct("{") THEN ObjValue(text, 2)
            ELSE IF IsScalarTok(text[1]) THEN Decoded(<< >>, 2)
            ELSE DecodeError(ExpectingValue, 1),
            LAMBDA r :
              IF ~r.ok THEN r
              ELSE IF r.pos <= Len(text) THEN DecodeError(ExtraData, r.pos)
              ELSE IF text[1] = Punct("[")
                THEN Decoded(AsJsonText("list", r.val), r.pos)
              ELSE IF text[1] = Punct("{") /\ r.val.themes.t = "str"
                THEN Decoded(AsJsonText("themes_str", << >>), r.pos)
              ELSE IF text[1] = Punct("{") /\ r.val.themes.t = "num"
                THEN Decoded(AsJsonText("themes_num", << >>), r.pos)
              ELSE IF text[1] = Punct("{") /\ r.val.themes.t = "items"
                THEN Decoded(AsJsonText("list", r.val.themes.l), r.pos)
              ELSE Decoded(AsJsonText("other", << >>), r.pos))

\* the Markdown fence around an answer: three backquotes, "json" and a line
\* break before it; a line break and three backquotes after it
FenceOpen == [k |-> "f", v |-> <<"open">>]
FenceClose == [k |-> "f", v |-> <<"close">>]

\* _strip_code_fences
strip_code_fences(text) ==
  IF text # << >> /\ text[1] = FenceOpen
    THEN LET rest == Tail(text)
         IN  IF rest # << >> /\ rest[Len(rest)] = FenceClose
               THEN SubSeq(rest, 1, Len(rest) - 1)
               ELSE rest
    ELSE text

Positions(text, tok) == {i \in 1..Len(text) : text[i] = tok}
MinOf(I) == CHOOSE i \in I : \A j \in I : i <= j
MaxOf(I) == CHOOSE i \in I : \A j \in I : i >= j

\* re.search(r'\[.*\]', cleaned, re.DOTALL): from the first "[" to the last
\* "]" when there is one after it; the text as it is otherwise
regex_array(cleaned) ==
  LET opens == Positions(cleaned, Punct("["))
      closes == Positions(cleaned, Punct("]"))
  IN  IF opens # {} /\ closes # {} /\ MinOf(opens) < MaxOf(closes)
        THEN SubSeq(cleaned, MinOf(opens), MaxOf(closes))
        ELSE cleaned

\* cleaned.endswith("]")
EndsWithClose(cleaned) ==
  cleaned # << >> /\ cleaned[Len(cleaned)] = Punct("]")

\* the condition under which the repair is attempted
RepairAttempted(err, cleaned) ==
  err = ExpectingValue /\ ~EndsWithClose(cleaned)

\* cleaned.rsplit("}", 1)[0] + "}]"
Repaired(cleaned) ==
  LET braces == Positions(cleaned, Punct("}"))
      kept == IF braces = {} THEN cleaned
              ELSE SubSeq(cleaned, 1, MaxOf(braces) - 1)
  IN  kept \o <<Punct("}"), Punct("]")>>

\* _parse_json_result up to the decoded data: fences stripped, the array cut
\* out, json.loads, and one repair attempt
json_value(text) ==
  Once(regex_array(strip_code_fences(text)),
       LAMBDA cleaned :
         Once(json_loads(cleaned),
              LAMBDA first :
                IF first.ok THEN first.val
                ELSE IF RepairAttempted(first.err, cleaned)
                  THEN Once(json_loads(Repaired(cleaned)),
                            LAMBDA second :
                              IF second.ok THEN second.val
                              ELSE AsJsonText("invalid", << >>))
                ELSE AsJsonText("invalid", << >>)))

\* _parse_json_result on the text of the extraction output
parse_text(text, count) ==
  Once(json_value(text), LAMBDA data : parse_json_result(data, count))

\* ---- the texts the parser is tried on
Member(key, val) == <<StrTok(<<key>>), Punct(":")>> \o val
TStr(x) == <<StrTok(x)>>
TNum(x) == <<NumTok(x)>>
TList(xs) ==
  <<Punct("[")>> \o
  Join(<<Punct(",")>>, [i \in 1..Len(xs) |-> <<StrTok(xs[i])>>]) \o
  <<Punct("]")>>
TObj(members) ==
  <<Punct("{")>> \o Join(<<Punct(",")>>, members) \o <<Punct("}")>>
TArr(elems) ==
  <<Punct("[")>> \o Join(<<Punct(",")>>, elems) \o <<Punct("]")>>

\* {"title":"A","short_concept":"x","keywords":[],"mood":[]}
TokA ==
  TObj(<<Member("title", TStr(<<"A">>)), Member("short_concept", TStr(<<"x">>)),
         Member("keywords", TList(<< >>)), Member("mood", TList(<< >>))>>)
\* {"title":"B"}
TokB == TObj(<<Member("title", TStr(<<"B">>))>>)
\* {"title":5,"short_concept":"y"}
TokNumTitle ==
  TObj(<<Member("title", TNum(<<"5">>)), Member("short_concept", TStr(<<"y">>))>>)
\* {"title":"","keywords":["sky"]}
TokEmptyTitle ==
  TObj(<<Member("title", TStr(<< >>)), Member("keywords", TList(<<s_sky>>))>>)
\* {"short_concept":"y"}
TokNoTitle == TObj(<<Member("short_concept", TStr(<<"y">>))>>)
\* 7
TokScalar == TNum(<<"7">>)

ElemToks == {TokA, TokB, TokNumTitle, TokEmptyTitle, TokNoTitle, TokScalar}

Prefixes(text) == {SubSeq(text, 1, n) : n \in 0..Len(text)}

\* complete arrays of up to MaxItems elements, each cut off at every token,
\* and an array wrapped in a fence or in {"themes": ...}
ParseTexts ==
  LET arrays == {TArr(es) : es \in SeqsUpTo(ElemToks, MaxItems)}
  IN  UNION {Prefixes(a) : a \in arrays}
        \cup {<<FenceOpen>> \o TArr(<<TokA>>) \o <<FenceClose>>,
              TObj(<<Member("themes", TArr(<<TokB, TokA>>))>>),
              TObj(<<Member("themes", TStr(<<"none">>))>>),
              TObj(<<Member("themes", TNum(<<"3">>))>>),
              TObj(<<Member("title", TStr(<<"A">>))>>)}

\* [{"title":"A","short_concept":"x","keywords":[],"mood":[]},{"title":"B"
TruncatedInput ==
  <<Punct("[")>> \o TokA \o <<Punct(",")>> \o SubSeq(TokB, 1, Len(TokB) - 1)

\* ------------------------------------------------------------ the requests
\* llm_config as ThemeAgent.handle receives it in payload["llm"]
LlamaCfgs ==
  [provider : {"llama_cpp"}, model_path : {None, "m1", "m2"},
   use_gpu : {"True", "False"}, api_key : {None}, base_url : {None},
   tipo_model_path : {None, "tipo"}, unload_after_generate : BOOLEAN,
   n_ctx : {0}, n_gpu_layers : {0}]

RemoteCfgs ==
  [provider : {"api", "vllm"}, model_path : {None},
   use_gpu : {"True"}, api_key : {None, "k"}, base_url : {None, "u"},
   tipo_model_path : {None, "tipo"}, unload_after_generate : BOOLEAN,
   n_ctx : {0}, n_gpu_layers : {0}]
    \cup [provider : {None}, model_path : {None}, use_gpu : {"True"},
          api_key : {None, "k"}, base_url : {None}, tipo_model_path : {None},
          unload_after_generate : {FALSE}, n_ctx : {0},
          n_gpu_layers : {0}]

OtherCfgs ==
  [provider : {"LLAMA_CPP", "other"}, model_path : {"m1"},
   use_gpu : {"True"}, api_key : {None}, base_url : {None},
   tipo_model_path : {None}, unload_after_generate : {TRUE},
   n_ctx : {0}, n_gpu_layers : {0}]

Cfgs == LlamaCfgs \cup RemoteCfgs \cup OtherCfgs

NoCfg ==
  [provider |-> None, model_path |-> None, use_gpu |-> "True",
   api_key |-> None, base_url |-> None, tipo_model_path |-> None,
   unload_after_generate |-> FALSE, n_ctx |-> 0, n_gpu_layers |-> 0]

\* payload["count"]: an int, a str that int() rejects, or no such key
CountInputs ==
  [t : {"int"}, v : (-1)..MaxCount] \cup [t : {"str", "absent"}, v : {0}]

Seasons == {None, "any", "summer"}
focus_none == <<None>>
focus_bikini == <<"frilled_", "bikini">>
Focuses == {focus_none, focus_bikini}

RulePayloads ==
  [count : CountInputs, season : Seasons, focus : Focuses,
   has_llm : {FALSE}, llm : {NoCfg}]

LLMPayloads ==
  [count : CountInputs, season : {"summer"}, focus : {focus_bikini},
   has_llm : {TRUE}, llm : Cfgs]

Payloads == RulePayloads \cup LLMPayloads

NoPayload ==
  [count |-> [t |-> "absent", v |-> 0], season |-> None, focus |-> focus_none,
   has_llm |-> FALSE, llm |-> NoCfg]

\* the process environment: whether llama_cpp imported (Llama is not None),
\* LLAMA_CPP_MODEL_PATH, and whether create_app gave ThemeAgent a model runner
Envs ==
  { [llama_installed |-> TRUE, env_model_path |-> None, model_runner |-> TRUE],
    [llama_installed |-> FALSE, env_model_path |-> None, model_runner |-> TRUE],
    [llama_installed |-> TRUE, env_model_path |-> "m2", model_runner |-> TRUE],
    [llama_installed |-> TRUE, env_model_path |-> None, model_runner |-> FALSE] }

\* ------------------------------------------------------------------ state
VARIABLES
  llama,             \* LLMModelRunner._llama: id of the Llama object, 0 = None
  llama_model_path,  \* LLMModelRunner._llama_model_path
  llama_use_gpu,     \* LLMModelRunner._llama_use_gpu
  heap,              \* the Llama objects alive in the process
  loads,             \* number of Llama(...) constructions that returned
  h,                 \* history of the calls on the runner (ghost)
  env,               \* the process environment (an element of Envs)
  nreq,              \* number of requests received so far
  pc,                \* per request thread: the place in the code
  payload,           \* per thread: AgentRequest.payload, until handle read it
  opt,               \* per thread: ThemeAgent.handle's options
  cfg,               \* per thread: generate_themes' cfg
  loc,               \* per thread: locals of the LLMModelRunner calls
  themes,            \* per thread: generate_themes' themes
  resp,              \* per thread: the AgentResponse returned
  g,                 \* per thread: history of the current request (ghost)
  fn                 \* a function called on its own: its argument and result

vars ==
  <<llama, llama_model_path, llama_use_gpu, heap, loads, h, env, nreq, pc,
    payload, opt, cfg, loc, themes, resp, g, fn>>

runner == <<llama, llama_model_path, llama_use_gpu, heap, loads, h>>

pipeline ==
  <<llama, llama_model_path, llama_use_gpu, heap, loads, h, env, nreq, pc,
    payload, opt, cfg, loc, themes, resp, g>>

\* h.prev_*: the identity key of the _call_llama_cpp call that ended last,
\*   None when there is none or the runner was used otherwise since;
\*   prev_start is the load counter when that call began.
\* h.pair: set when a _call_llama_cpp call ends right after another one:
\*   whether the keys were identical, the loads of the second call, the loads
\*   of both calls, and whether the runner was empty before the first.
NoPair == [same |-> FALSE, second |-> 0, both |-> 0, fresh |-> FALSE]
NoH ==
  [prev_path |-> None, prev_gpu |-> None, prev_start |-> 0,
   prev_fresh |-> FALSE, pair |-> NoPair, last_path |-> None, last_gpu |-> None]

\* the history after a model with this identity key was loaded and stored
Loaded(hist, model_path, use_gpu) ==
  [hist EXCEPT !.last_path = model_path, !.last_gpu = use_gpu]

\* the runner was used by something else than a completed _call_llama_cpp
Interrupted(hist) ==
  [hist EXCEPT !.prev_path = None, !.prev_gpu = None, !.prev_start = 0,
               !.prev_fresh = FALSE]

NoOpt == [count |-> 0, season |-> None, focus |-> focus_none]
NoLoc ==
  [stage |-> "none", exc |-> None, model_path |-> None, newh |-> 0,
   run |-> 0, text |-> NoText, idx |-> 0, prompt |-> << >>, raw_text |-> << >>,
   returned |-> 0]
NoResp == [ok |-> FALSE, data |-> << >>, has_data |-> FALSE, error |-> None,
           sent |-> FALSE]
NoG ==
  [contacted |-> FALSE, load_tried |-> FALSE, failed |-> FALSE,
   left_agent |-> FALSE, escaped |-> FALSE, path |-> "none",
   requested |-> 0, calls |-> << >>, gen_finished |-> FALSE,
   call_start |-> 0, call_fresh |-> FALSE, released |-> FALSE,
   final_unloaded |-> FALSE, snap |-> <<0, None, None>>, empty_parse |-> FALSE,
   enh_failed |-> FALSE, kw_before |-> << >>, kw_after |-> << >>,
   stages |-> << >>]

\* no function is called on its own in the request pipeline
NoFn == [op |-> "none", arg |-> << >>, ret |-> << >>, done |-> FALSE]

\* no request has arrived and no model is loaded
Quiescent ==
  /\ llama = 0
  /\ llama_model_path = None
  /\ llama_use_gpu = None
  /\ heap = {}
  /\ loads = 0
  /\ h = NoH
  /\ env \in Envs
  /\ nreq = 0
  /\ pc = [t \in Threads |-> "idle"]
  /\ payload = [t \in Threads |-> NoPayload]
  /\ opt = [t \in Threads |-> NoOpt]
  /\ cfg = [t \in Threads |-> NoCfg]
  /\ loc = [t \in Threads |-> NoLoc]
  /\ themes = [t \in Threads |-> << >>]
  /\ resp = [t \in Threads |-> NoResp]
  /\ g = [t \in Threads |-> NoG]

Init ==
  /\ Quiescent
  /\ fn = NoFn

\* The Llama objects still referenced: by the runner's field, by a thread
\* that constructed one and has not stored it yet, or by a running call.
Referenced(objs, field, locals) ==
  {o \in objs : \/ o.id = field
                \/ \E t \in Threads : locals[t].newh = o.id \/ locals[t].run = o.id}

\* ------------------------------------------------------ Orchestrator.handle
\* except Exception of Orchestrator.handle
OrchestratorCatches(e) == TRUE

\* The request arrives: Orchestrator.handle dispatches on request.type.
\* write_post goes to PostWriterAgent.handle, a collaborator that answers
\* ok, answers not ok, or raises.
Orchestrator_handle(t, P) ==
  /\ pc[t] = "idle"
  /\ nreq < MaxRequests
  /\ nreq' = nreq + 1
  /\ \/ \E p \in P :
          \* request.type = "generate_theme"
          /\ pc' = [pc EXCEPT ![t] = "handle"]
          /\ payload' = [payload EXCEPT ![t] = p]
          /\ resp' = resp
          /\ g' = g
     \/ \E post \in {"ok", "fail", "raise"} :
          \* request.type = "write_post"
          /\ pc' = [pc EXCEPT ![t] = "done"]
          /\ payload' = payload
          /\ resp' = [resp EXCEPT ![t] =
               IF post = "ok"
                 THEN [ok |-> TRUE, data |-> << >>, has_data |-> TRUE,
                       error |-> None, sent |-> TRUE]
               ELSE IF post = "fail"
                 THEN [ok |-> FALSE, data |-> << >>, has_data |-> FALSE,
                       error |-> "PostWriterAgent error", sent |-> TRUE]
               ELSE IF OrchestratorCatches("Exception: collaborator")
                 THEN [ok |-> FALSE, data |-> << >>, has_data |-> FALSE,
                       error |-> "Unhandled exception in Orchestrator",
                       sent |-> TRUE]
               ELSE NoResp]
          /\ g' = [g EXCEPT ![t].path = "post",
                            ![t].failed = (post # "ok"),
                            ![t].escaped =
                              (post = "raise"
                                 /\ ~OrchestratorCatches("Exception: collaborator"))]
     \/ \* any other request.type
        /\ pc' = [pc EXCEPT ![t] = "done"]
        /\ payload' = payload
        /\ resp' = [resp EXCEPT ![t] =
             [ok |-> FALSE, data |-> << >>, has_data |-> FALSE,
              error |-> "Unknown request type", sent |-> TRUE]]
        /\ g' = [g EXCEPT ![t].path = "unknown", ![t].failed = TRUE]
  /\ UNCHANGED <<fn, runner, env, opt, cfg, loc, themes>>

\* The caller has the AgentResponse (or the exception): the request is over
\* and its thread is free for the next one.
request_done(t) ==
  /\ pc[t] = "done"
  /\ pc' = [pc EXCEPT ![t] = "idle"]
  /\ payload' = [payload EXCEPT ![t] = NoPayload]
  /\ opt' = [opt EXCEPT ![t] = NoOpt]
  /\ cfg' = [cfg EXCEPT ![t] = NoCfg]
  /\ loc' = [loc EXCEPT ![t] = NoLoc]
  /\ themes' = [themes EXCEPT ![t] = << >>]
  /\ resp' = [resp EXCEPT ![t] = NoResp]
  /\ g' = [g EXCEPT ![t] = NoG]
  /\ UNCHANGED <<fn, runner, env, nreq>>

\* ------------------------------------------------------- ThemeAgent.handle
\* int(payload.get("count", 3)); if count <= 0: count = 1
CountOf(c) ==
  IF c.t = "absent" THEN DefaultCount
  ELSE IF c.v <= 0 THEN 1 ELSE c.v

\* a choice of path that looks at the request only
use_llm_request_only(model_runner, llm_present) == llm_present

\* use_llm = self._model_runner is not None and llm_config is not None
use_llm_of(model_runner, llm_present) == model_runner /\ llm_present

\* handle up to the choice of the generation path: the payload is read,
\* the trend fetcher and the preference store are called (either may raise).
ThemeAgent_handle(t) ==
  /\ pc[t] = "handle"
  /\ \E collaborator_raises \in BOOLEAN :
       LET p == payload[t]
           e == IF p.count.t = "str" THEN "ValueError: invalid literal for int()"
                ELSE IF collaborator_raises THEN "Exception: collaborator"
                ELSE None
           use_llm == use_llm_of(env.model_runner, p.has_llm)
       IN  /\ opt' = [opt EXCEPT ![t] =
                 IF p.count.t = "str" THEN NoOpt
                 ELSE [count |-> CountOf(p.count), season |-> p.season,
                       focus |-> p.focus]]
           /\ cfg' = [cfg EXCEPT ![t] = IF e = None /\ use_llm THEN p.llm ELSE NoCfg]
           /\ loc' = [loc EXCEPT ![t].exc = e]
           /\ pc' = [pc EXCEPT ![t] =
                 IF e # None THEN "h_except"
                 ELSE IF use_llm THEN "gen" ELSE "rule"]
           /\ g' = [g EXCEPT ![t].failed = (e # None),
                             ![t].requested =
                                IF p.count.t = "str" THEN 0 ELSE CountOf(p.count),
                             ![t].path =
                                IF e # None THEN "none"
                                ELSE IF use_llm THEN "llm" ELSE "rule"]
  /\ payload' = [payload EXCEPT ![t] = NoPayload]
  /\ UNCHANGED <<fn, runner, env, nreq, themes, resp>>

\* str.capitalize() of a season name
Capitalize(season) ==
  CASE season = "summer" -> "Summer"
    [] season = "any" -> "Any"
    [] OTHER -> season

Contains(str, sym) == \E i \in 1..Len(str) : str[i] = sym

\* presets that ignore the season
season_presets_any(season) ==
  [setting |-> <<"room_in_daylight">>,
   mood |-> << <<"calm">>, <<"daily_life">> >>]

\* _season_presets
season_presets(season) ==
  LET x == IF season = None THEN "any" ELSE season
  IN  IF x = "summer"
        THEN [setting |-> <<"beach">>,
              mood |-> << <<"sunny">>, <<"bright">>, <<"relaxed">> >>]
        ELSE [setting |-> <<"room_in_daylight">>,
              mood |-> << <<"calm">>, <<"daily_life">> >>]

\* _build_title: None.capitalize() and ("bikini" in None) raise
build_title_raises(season, focus) ==
  IF season = None THEN "AttributeError: NoneType has no capitalize"
  ELSE IF focus = focus_none THEN "TypeError: NoneType is not iterable"
  ELSE None

build_title(season, focus, index) ==
  LET season_str == IF season # "any" THEN Capitalize(season) ELSE "Daily"
      kind == IF Contains(focus, "bikini") \/ Contains(focus, "swimsuit")
                THEN " Beach "
              ELSE IF Contains(focus, "uniform") THEN " Campus "
              ELSE " Scene "
  IN  <<season_str, kind, ToString(index + 1), " - ">> \o focus

\* season_setting.replace("_", " ") on one symbol
ReplaceUnderscore(sym) ==
  CASE sym = "room_in_daylight" -> "room in daylight"
    [] OTHER -> sym

\* _build_short_concept
build_short_concept(season_setting, focus, extra_motifs) ==
  LET base == [i \in 1..Len(season_setting) |-> ReplaceUnderscore(season_setting[i])]
                \o <<" with ">> \o focus
  IN  IF extra_motifs # << >>
        THEN base \o <<", plus ">> \o Join(CommaBlank, extra_motifs)
        ELSE base

\* SimplePromptTemplateLibrary: the template "default"
DefaultTemplate ==
  [clothing |-> << >>,
   mood |-> << <<"cute">>, <<"soft">> >>,
   setting |-> << >>,
   expression |-> << <<"smile">>, <<"blush">> >>,
   action |-> << <<"looking_at_viewer">> >>,
   artistic |-> << <<"masterpiece">>, <<"best_quality">>, <<"high_resolution">>,
                   <<"detailed_eyes">>, <<"soft_lighting">> >>,
   object |-> << >>]

\* _get_base_prompt_template("default"): the library's template, or the
\* empty frame when ThemeAgent was given no library
get_base_prompt_template(has_library) ==
  IF has_library THEN DefaultTemplate
  ELSE [clothing |-> << >>, mood |-> << >>, setting |-> << >>,
        expression |-> << >>, action |-> << >>, artistic |-> << >>,
        object |-> << >>]

\* SimpleUserPreferenceStore: favorite_motifs and ng_tags
favorite_motifs ==
  << <<"frilled_", "bikini">>, <<"school_", "uniform">>, <<"thighhighs">>,
     <<"bare_legs">>, <<"side_ponytail">>, <<"twin_tails">>,
     <<"idol_costume">> >>
ng_tags ==
  { <<"gore">>, <<"violence">>, <<"blood">>, <<"guts">>, <<"extreme_guro">> }

\* SimpleTrendFetcher.get_trending_tags: the pool in a shuffled order
TrendOrders ==
  { << <<"cat_ears">>, <<"sunset">>, <<"hair_ribbon">> >>,
    << <<"sunset">>, <<"hair_ribbon">>, <<"cat_ears">> >> }

OrDefault(l, default) == IF l = << >> THEN default ELSE l

\* _build_prompt_tags
build_prompt_tags(base_template, focus, season_setting, season_mood, motifs, extra_motifs) ==
  LET clothing == Append(base_template.clothing, focus)
  IN  [clothing |->
         Dedup(clothing \o SelectSeq(motifs, LAMBDA m : m \notin Elems(clothing))),
       mood |-> Dedup(base_template.mood \o season_mood),
       setting |-> Dedup(Append(base_template.setting, season_setting)),
       expression |->
         Dedup(OrDefault(base_template.expression, << <<"smile">>, <<"blush">> >>)),
       action |->
         Dedup(OrDefault(base_template.action, << <<"looking_at_viewer">> >>)),
       object |-> Dedup(base_template.object \o extra_motifs),
       artistic |->
         Dedup(OrDefault(base_template.artistic,
                         << <<"masterpiece">>, <<"best_quality">>,
                            <<"soft_lighting">> >>))]

\* a classifier that tests the setting terms before the clothing terms
CategoryOfSettingFirst(kw) ==
  LET k == Lower(kw)
  IN  IF Contains(k, "beach") \/ Contains(k, "street") \/ Contains(k, "room")
           \/ Contains(k, "stage")
        THEN "setting"
      ELSE IF Contains(k, "bikini") \/ Contains(k, "swimsuit") \/ Contains(k, "uniform")
        THEN "clothing"
      ELSE "object"

\* the category a keyword is put in: the first of the tests that matches
CategoryOf(kw) ==
  LET k == Lower(kw)
  IN  IF Contains(k, "bikini") \/ Contains(k, "swimsuit") \/ Contains(k, "uniform")
        THEN "clothing"
      ELSE IF Contains(k, "beach") \/ Contains(k, "street") \/ Contains(k, "room")
                \/ Contains(k, "stage")
        THEN "setting"
      ELSE "object"

\* the loop over the keywords of _build_prompt_tags_from_keywords
RECURSIVE Classify(_, _)
Classify(keywords, tags) ==
  IF keywords = << >> THEN tags
  ELSE LET c == CategoryOf(Head(keywords))
       IN  Classify(Tail(keywords), [tags EXCEPT ![c] = Append(@, Head(keywords))])

\* _build_prompt_tags_from_keywords
build_prompt_tags_from_keywords(has_library, focus, season, keywords, mood) ==
  LET base == get_base_prompt_template(has_library)
      tags == Classify(keywords, [base EXCEPT !.clothing = Append(@, focus)])
      with_mood == [tags EXCEPT !.mood = @ \o mood]
      with_season == IF season # None /\ season # "any"
                       THEN [with_mood EXCEPT !.setting = Append(@, <<season>>)]
                       ELSE with_mood
  IN  build_prompt_tags(with_season, focus, season_presets(season).setting,
                        season_presets(season).mood, << >>, << >>)

\* usable_trends[i : i + 2]
ExtraMotifs(trend_tags, i) ==
  LET usable_trends == SelectSeq(trend_tags, LAMBDA x : x \notin ng_tags)
  IN  SubSeq(usable_trends, i + 1, Min(i + 2, Len(usable_trends)))

\* _generate_rule_based: one theme per i in range(count)
generate_rule_based(options, trend_tags) ==
  [i \in 1..options.count |->
     [title |-> build_title(options.season, options.focus, i - 1),
      short_concept |-> build_short_concept(season_presets(options.season).setting,
                                            options.focus,
                                            ExtraMotifs(trend_tags, i - 1)),
      prompt_tags |-> build_prompt_tags(get_base_prompt_template(TRUE),
                                        options.focus,
                                        season_presets(options.season).setting,
                                        season_presets(options.season).mood,
                                        favorite_motifs,
                                        ExtraMotifs(trend_tags, i - 1)),
      keywords |-> << >>,
      mood |-> season_presets(options.season).mood]]

\* the rule-based branch of handle
ThemeAgent_rule_based(t) ==
  /\ pc[t] = "rule"
  /\ \E trend_tags \in TrendOrders :
     LET e == build_title_raises(opt[t].season, opt[t].focus)
     IN  /\ loc' = [loc EXCEPT ![t].exc = e]
         /\ themes' = [themes EXCEPT ![t] =
               IF e = None THEN generate_rule_based(opt[t], trend_tags) ELSE << >>]
         /\ pc' = [pc EXCEPT ![t] = IF e = None THEN "h_respond" ELSE "h_except"]
         /\ g' = [g EXCEPT ![t].failed = (e # None)]
  /\ UNCHANGED <<fn, runner, env, nreq, payload, opt, cfg, resp>>

\* the dict of one returned theme (_theme_to_dict of the ThemeCandidate)
theme_to_dict(item, source, prompt_tags) ==
  [title |-> item.title, short_concept |-> item.short_concept,
   prompt_tags |-> prompt_tags,
   source |-> source, raw_keywords |-> item.keywords, mood |-> item.mood]

\* the ThemeCandidate handle builds from one item of the model runner, or the
\* one _generate_rule_based built, as a dict
CandidateDict(item, path, options) ==
  IF path = "llm"
    THEN theme_to_dict(item, "llm",
           build_prompt_tags_from_keywords(TRUE, options.focus, options.season,
                                           item.keywords, item.mood))
    ELSE theme_to_dict(item, "rule_based", item.prompt_tags)

\* handle: the ThemeCandidates are assembled and AgentResponse(ok=True) built
ThemeAgent_respond(t) ==
  /\ pc[t] = "h_respond"
  /\ resp' = [resp EXCEPT ![t] =
       [ok |-> TRUE,
        data |-> [i \in 1..Len(themes[t]) |->
                    CandidateDict(themes[t][i], g[t].path, opt[t])],
        has_data |-> TRUE, error |-> None, sent |-> FALSE]]
  /\ pc' = [pc EXCEPT ![t] = "h_return"]
  /\ g' = [g EXCEPT ![t].stages = Append(@, "assembled")]
  /\ UNCHANGED <<fn, runner, env, nreq, payload, opt, cfg, loc, themes>>

\* fault: the handler written as "except ValueError" (used to test C1)
ThemeAgentCatchesValueError(e) ==
  e \in {"ValueError: invalid literal for int()", "ValueError: Unknown provider"}

\* except Exception of ThemeAgent.handle
ThemeAgentCatches(e) == TRUE

\* handle: an exception raised anywhere in the try block reaches the except
ThemeAgent_except(t) ==
  /\ pc[t] = "h_except"
  /\ IF ThemeAgentCatches(loc[t].exc)
       THEN /\ resp' = [resp EXCEPT ![t] =
                 [ok |-> FALSE, data |-> << >>, has_data |-> FALSE,
                  error |-> loc[t].exc, sent |-> FALSE]]
            /\ loc' = [loc EXCEPT ![t].exc = None]
            /\ g' = g
       ELSE /\ resp' = resp
            /\ loc' = loc
            /\ g' = [g EXCEPT ![t].left_agent = TRUE]
  /\ pc' = [pc EXCEPT ![t] = "h_return"]
  /\ UNCHANGED <<fn, runner, env, nreq, payload, opt, cfg, themes>>

\* Orchestrator.handle: ThemeAgent.handle returned or raised
Orchestrator_return(t) ==
  /\ pc[t] = "h_return"
  /\ IF loc[t].exc = None
       THEN /\ resp' = [resp EXCEPT ![t].sent = TRUE]
            /\ g' = g
       ELSE IF OrchestratorCatches(loc[t].exc)
         THEN /\ resp' = [resp EXCEPT ![t] =
                   [ok |-> FALSE, data |-> << >>, has_data |-> FALSE,
                    error |-> "Unhandled exception in Orchestrator",
                    sent |-> TRUE]]
              /\ g' = g
         ELSE /\ resp' = resp
              /\ g' = [g EXCEPT ![t].escaped = TRUE]
  /\ loc' = [loc EXCEPT ![t] = NoLoc]
  /\ pc' = [pc EXCEPT ![t] = "done"]
  /\ UNCHANGED <<fn, runner, env, nreq, payload, opt, cfg, themes>>

\* ---------------------------------------------------------- LLMModelRunner
default_provider == "api"

\* (cfg.get("provider") or self._default_provider).lower()
Provider(c) == LowerSym(IF c.provider = None THEN default_provider ELSE c.provider)

field == <<llama, llama_model_path, llama_use_gpu>>
model == <<llama, llama_model_path, llama_use_gpu, heap, loads>>

\* fault: unload_model that drops the handle but keeps its identity key
\* (used to test C6)
unload_model_keeps_key ==
  /\ llama' = 0
  /\ UNCHANGED <<llama_model_path, llama_use_gpu>>

\* an unload_model that leaves the cached GPU flag in place
unload_model_keeps_gpu ==
  IF llama # 0
    THEN /\ llama' = 0
         /\ llama_model_path' = None
         /\ llama_use_gpu' = llama_use_gpu
    ELSE UNCHANGED field

\* unload_model: the handle and its identity key are cleared together
unload_model ==
  IF llama # 0
    THEN /\ llama' = 0
         /\ llama_model_path' = None
         /\ llama_use_gpu' = None
    ELSE UNCHANGED field

\* an exception after which generate_themes goes on with the next stage
RaisedInGenerateGoesOn(t, e, locals) ==
  /\ loc' = [locals EXCEPT ![t].text = NoText, ![t].run = 0, ![t].newh = 0,
                           ![t].prompt = << >>, ![t].raw_text = << >>]
  /\ pc' = [pc EXCEPT ![t] = "enh_check"]

\* an exception raised inside the try block of generate_themes
RaisedInGenerate(t, e, locals) ==
  /\ loc' = [locals EXCEPT ![t].exc = e, ![t].text = NoText, ![t].run = 0,
                           ![t].newh = 0, ![t].prompt = << >>,
                           ![t].raw_text = << >>]
  /\ pc' = [pc EXCEPT ![t] = "finally"]

\* what the primary model may answer to the ideation prompt
RawTexts == {<< >>, <<"1. Seaside", Comma, Blank, "sky">>}

\* _build_ideation_prompt: the user content
build_ideation_prompt(options) ==
  <<"Request: ", "Target Count: ", ToString(options.count), "Season: ",
    options.season, "Focus: ">> \o options.focus
    \o <<"Output Format: Plain text list.">>

\* an extraction prompt that leaves the source text out
build_extraction_prompt_blind(raw_text, count) ==
  <<"Source Text:", "---", "---", "Task: Extract ", ToString(count),
    " themes from the text above into a JSON array.">>

\* _build_extraction_prompt: the user content
build_extraction_prompt(raw_text, count) ==
  <<"Source Text:", "---">> \o raw_text
    \o <<"---", "Task: Extract ", ToString(count),
         " themes from the text above into a JSON array.">>

\* generate_themes up to the ideation call
generate_themes(t) ==
  /\ pc[t] = "gen"
  /\ loc' = [loc EXCEPT ![t].stage = "ideation",
                        ![t].prompt = build_ideation_prompt(opt[t]),
                        ![t].returned = 0]
  /\ pc' = [pc EXCEPT ![t] = "infer"]
  /\ g' = [g EXCEPT ![t].snap = <<llama, llama_model_path, llama_use_gpu>>]
  /\ UNCHANGED <<fn, runner, env, nreq, payload, opt, cfg, themes, resp>>

\* fault: a dispatch whose last branch takes every other provider for a
\* chat-completion endpoint (used to test C9)
BackendWithoutElse(provider) ==
  IF provider = "llama_cpp" THEN "llama_cpp" ELSE "openai"

\* a dispatch that sends the remote providers to the local backend too
BackendAllLocal(provider) ==
  IF provider \in {"api", "vllm", "llama_cpp"} THEN "llama_cpp" ELSE "unknown"

\* _execute_inference: the branch taken for a provider
Backend(provider) ==
  IF provider \in {"api", "vllm"} THEN "openai"
  ELSE IF provider = "llama_cpp" THEN "llama_cpp"
  ELSE "unknown"

\* _execute_inference: dispatch on the provider
execute_inference(t) ==
  /\ pc[t] = "infer"
  /\ LET backend == Backend(Provider(cfg[t]))
     IN  /\ g' = [g EXCEPT ![t].contacted = FALSE, ![t].load_tried = FALSE,
                           ![t].calls =
                              Append(@, [stage |-> loc[t].stage,
                                         provider |-> Provider(cfg[t])]),
                           ![t].failed = (backend = "unknown")]
         /\ IF backend = "openai"
              THEN /\ pc' = [pc EXCEPT ![t] = "openai"]
                   /\ loc' = loc
            ELSE IF backend = "llama_cpp"
              THEN /\ pc' = [pc EXCEPT ![t] = "lc_check"]
                   /\ loc' = loc
            ELSE RaisedInGenerate(t, "ValueError: Unknown provider", loc)
  /\ UNCHANGED <<fn, runner, env, nreq, payload, opt, cfg, themes, resp>>

\* generate_themes after a primary inference call returned its text: the
\* ideation text goes into the extraction prompt, the extraction text (one
\* of J) to the parser
InferenceReturned(t, locals, J) ==
  \E txt \in (IF loc[t].stage = "extraction" THEN J ELSE {NoText}),
     raw \in (IF loc[t].stage = "ideation" THEN RawTexts ELSE {<< >>}) :
    /\ loc' = [locals EXCEPT ![t].stage =
                                IF loc[t].stage = "ideation" THEN "extraction" ELSE @,
                             ![t].text = txt,
                             ![t].raw_text = raw,
                             ![t].prompt =
                                IF loc[t].stage = "ideation"
                                  THEN build_extraction_prompt(raw, opt[t].count)
                                  ELSE << >>,
                             ![t].returned = @ + 1]
    /\ pc' = [pc EXCEPT ![t] =
                IF loc[t].stage = "ideation" THEN "infer" ELSE "parse"]

\* OpenAI(api_key=..., base_url=...): the library rejects a client without a
\* key; "api" passes api_key as it is, "vllm" passes api_key or "DUMMY".
\* A base_url of None is accepted (the library's default endpoint is used).
ClientAccepted(provider, api_key, base_url) ==
  ~(provider = "api" /\ api_key = None)

\* _call_openai_like: the client is built, then the chat completion is
\* requested.  The client may be rejected (also when openai is not
\* installed), the request may fail, or a text comes back.
call_openai_like(t, J) ==
  /\ pc[t] = "openai"
  /\ \E outcome \in {"client_raises", "request_raises", "returns"} :
       /\ outcome # "client_raises" =>
            ClientAccepted(Provider(cfg[t]), cfg[t].api_key, cfg[t].base_url)
       /\ g' = [g EXCEPT ![t].contacted = (outcome # "client_raises"),
                         ![t].failed = (outcome # "returns")]
       /\ IF outcome = "returns"
            THEN InferenceReturned(t, loc, J)
            ELSE RaisedInGenerate(t,
                   IF outcome = "client_raises"
                     THEN "Exception: the client was rejected"
                     ELSE "Exception: the request failed", loc)
  /\ UNCHANGED <<fn, runner, env, nreq, payload, opt, cfg, themes, resp>>

\* int(cfg.get("n_ctx") or 4096); a hint of 0 stands for a key that is
\* absent, None or 0, which "or" reads alike
ContextSize(c) == IF c.n_ctx # 0 THEN c.n_ctx ELSE MainCtx

\* int(cfg.get("n_gpu_layers") or (-1 if use_gpu else 0))
GpuLayers(c) ==
  IF c.n_gpu_layers # 0 THEN c.n_gpu_layers
  ELSE IF c.use_gpu = "True" THEN -1 ELSE 0

\* the Llama object a call constructs
NewLlama(id, path, gpu, n_ctx, n_gpu_layers) ==
  [id |-> id, path |-> path, gpu |-> gpu, n_ctx |-> n_ctx,
   n_gpu_layers |-> n_gpu_layers]

\* _call_llama_cpp: cfg.get("model_path") or os.getenv("LLAMA_CPP_MODEL_PATH")
ModelPath(c) == IF c.model_path # None THEN c.model_path ELSE env.env_model_path

\* fault: the cached handle is never reused (used to test C3)
NeedsLoadAlways(model_path, use_gpu) == TRUE

\* a load test that takes the context size for a part of the identity key
NeedsLoadOnContextSize(model_path, use_gpu) ==
  \/ llama = 0
  \/ llama_model_path # model_path
  \/ llama_use_gpu # use_gpu
  \/ \E t \in Threads, o \in heap :
       pc[t] = "lc_check" /\ o.id = llama /\ o.n_ctx # ContextSize(cfg[t])

\* _call_llama_cpp: the test that decides a (re)load
NeedsLoad(model_path, use_gpu) ==
  \/ llama = 0
  \/ llama_model_path # model_path
  \/ llama_use_gpu # use_gpu

\* _call_llama_cpp, up to the test of the cached handle
call_llama_cpp_check(t) ==
  /\ pc[t] = "lc_check"
  /\ IF ~env.llama_installed
       THEN /\ RaisedInGenerate(t, "RuntimeError: llama-cpp-python not installed.", loc)
            /\ g' = [g EXCEPT ![t].failed = TRUE]
            /\ h' = Interrupted(h)
     ELSE IF ModelPath(cfg[t]) = None
       THEN /\ RaisedInGenerate(t, "RuntimeError: No model_path provided for llama_cpp.", loc)
            /\ g' = [g EXCEPT ![t].failed = TRUE]
            /\ h' = Interrupted(h)
     ELSE /\ loc' = [loc EXCEPT ![t].model_path = ModelPath(cfg[t])]
          /\ pc' = [pc EXCEPT ![t] =
                IF NeedsLoad(ModelPath(cfg[t]), cfg[t].use_gpu)
                  THEN "lc_unload" ELSE "lc_invoke"]
          /\ g' = [g EXCEPT ![t].call_start = loads, ![t].call_fresh = (llama = 0),
                            ![t].released = FALSE]
          /\ h' = h
  /\ UNCHANGED <<fn, model, env, nreq, payload, opt, cfg, themes, resp>>

\* _call_llama_cpp: self.unload_model() before the load
call_llama_cpp_unload(t) ==
  /\ pc[t] = "lc_unload"
  /\ unload_model
  /\ heap' = Referenced(heap, llama', loc)
  /\ pc' = [pc EXCEPT ![t] = "lc_load"]
  /\ g' = [g EXCEPT ![t].released = (llama # 0)]
  /\ UNCHANGED <<fn, loads, h, env, nreq, payload, opt, cfg, loc, themes, resp>>

\* _call_llama_cpp: Llama(model_path=..., n_ctx=..., ...) loads the file,
\* or raises
call_llama_cpp_load(t) ==
  /\ pc[t] = "lc_load"
  /\ \E loaded \in BOOLEAN :
       IF loaded
         THEN /\ loads' = loads + 1
              /\ heap' = heap \cup
                   {NewLlama(loads + 1, loc[t].model_path, cfg[t].use_gpu,
                             ContextSize(cfg[t]), GpuLayers(cfg[t]))}
              /\ loc' = [loc EXCEPT ![t].newh = loads + 1]
              /\ pc' = [pc EXCEPT ![t] = "lc_store"]
              /\ g' = [g EXCEPT ![t].load_tried = TRUE]
              /\ h' = h
         ELSE /\ RaisedInGenerate(t, "Exception: model load failed", loc)
              /\ g' = [g EXCEPT ![t].load_tried = TRUE, ![t].failed = TRUE]
              /\ h' = Interrupted(h)
              /\ UNCHANGED <<loads, heap>>
  /\ UNCHANGED <<fn, field, env, nreq, payload, opt, cfg, themes, resp>>

\* _call_llama_cpp: the new object and its identity key are stored
call_llama_cpp_store(t) ==
  /\ pc[t] = "lc_store"
  /\ llama' = loc[t].newh
  /\ llama_model_path' = loc[t].model_path
  /\ llama_use_gpu' = cfg[t].use_gpu
  /\ loc' = [loc EXCEPT ![t].newh = 0]
  /\ heap' = Referenced(heap, llama', loc')
  /\ pc' = [pc EXCEPT ![t] = "lc_invoke"]
  /\ h' = Loaded(h, loc[t].model_path, cfg[t].use_gpu)
  /\ UNCHANGED <<fn, loads, env, nreq, payload, opt, cfg, themes, resp, g>>

\* _call_llama_cpp: self._llama(prompt_text, ...) is entered; calling None
\* raises TypeError
call_llama_cpp_invoke(t) ==
  /\ pc[t] = "lc_invoke"
  /\ IF llama = 0
       THEN /\ RaisedInGenerate(t, "TypeError: NoneType is not callable", loc)
            /\ g' = [g EXCEPT ![t].failed = TRUE]
            /\ h' = Interrupted(h)
       ELSE /\ loc' = [loc EXCEPT ![t].run = llama]
            /\ pc' = [pc EXCEPT ![t] = "lc_run"]
            /\ g' = [g EXCEPT ![t].contacted = TRUE]
            /\ h' = h
  /\ UNCHANGED <<fn, model, env, nreq, payload, opt, cfg, themes, resp>>

\* the history after a _call_llama_cpp call with this key ended
CallEnded(hist, model_path, use_gpu, start, fresh) ==
  [prev_path |-> model_path, prev_gpu |-> use_gpu, prev_start |-> start,
   prev_fresh |-> fresh, last_path |-> hist.last_path,
   last_gpu |-> hist.last_gpu,
   pair |-> IF hist.prev_path = None THEN NoPair
            ELSE [same |-> (hist.prev_path = model_path /\ hist.prev_gpu = use_gpu),
                  second |-> loads - start,
                  both |-> loads - hist.prev_start,
                  fresh |-> hist.prev_fresh]]

\* _call_llama_cpp: the completion ends, with a text or with an exception
call_llama_cpp_run(t, J) ==
  /\ pc[t] = "lc_run"
  /\ \E returns \in BOOLEAN :
       IF returns
         THEN /\ InferenceReturned(t, [loc EXCEPT ![t].run = 0], J)
              /\ g' = g
         ELSE /\ RaisedInGenerate(t, "Exception: inference failed", loc)
              /\ g' = [g EXCEPT ![t].failed = TRUE]
  /\ heap' = Referenced(heap, llama, loc')
  /\ h' = CallEnded(h, loc[t].model_path, cfg[t].use_gpu, g[t].call_start,
                    g[t].call_fresh)
  /\ UNCHANGED <<fn, field, loads, env, nreq, payload, opt, cfg, themes, resp>>

\* generate_themes: themes = self._parse_json_result(json_text, count)
generate_themes_parse(t) ==
  /\ pc[t] = "parse"
  /\ LET r == parse_json_result(loc[t].text, opt[t].count)
     IN  IF r.ok
           THEN /\ themes' = [themes EXCEPT ![t] = r.themes]
                /\ loc' = [loc EXCEPT ![t].text = NoText]
                /\ pc' = [pc EXCEPT ![t] = "enh_check"]
                /\ g' = [g EXCEPT ![t].empty_parse = (r.themes = << >>),
                                  ![t].stages = Append(@, "parsed")]
           ELSE /\ RaisedInGenerate(t, r.exc, loc)
                /\ g' = [g EXCEPT ![t].failed = TRUE]
                /\ themes' = themes
  /\ UNCHANGED <<fn, runner, env, nreq, payload, opt, cfg, resp>>

\* an enhancement that leaves the primary model where it is
EnhanceUnloadsNever(provider) == FALSE

\* generate_themes, enhancement: if provider == "llama_cpp": unload_model()
EnhanceUnloads(provider) == provider = "llama_cpp"

\* generate_themes: if tipo_path and os.path.exists(tipo_path); a local
\* primary model is unloaded before the tagger runs
generate_themes_enhance(t) ==
  /\ pc[t] = "enh_check"
  /\ \E exists \in (IF cfg[t].tipo_model_path = None THEN {FALSE} ELSE BOOLEAN) :
       IF exists
         THEN /\ IF EnhanceUnloads(Provider(cfg[t]))
                   THEN unload_model /\ h' = Interrupted(h)
                   ELSE UNCHANGED <<field, h>>
              /\ loc' = [loc EXCEPT ![t].stage = "tipo", ![t].idx = 1]
              /\ pc' = [pc EXCEPT ![t] = "enh_loop"]
              /\ g' = [g EXCEPT ![t].stages = Append(@, "enhancement")]
         ELSE /\ UNCHANGED <<field, h, loc, g>>
              /\ pc' = [pc EXCEPT ![t] = "finally"]
  /\ heap' = Referenced(heap, llama', loc')
  /\ UNCHANGED <<fn, loads, env, nreq, payload, opt, cfg, themes, resp>>

\* generate_themes: for theme in themes; a theme without a concept is skipped
generate_themes_loop(t) ==
  /\ pc[t] = "enh_loop"
  /\ IF loc[t].idx > Len(themes[t])
       THEN /\ pc' = [pc EXCEPT ![t] = "finally"]
            /\ loc' = [loc EXCEPT ![t].idx = 0]
            /\ g' = [g EXCEPT ![t].stages = Append(@, "enhanced")]
     ELSE IF themes[t][loc[t].idx].short_concept = << >>
       THEN /\ pc' = pc
            /\ loc' = [loc EXCEPT ![t].idx = @ + 1]
            /\ g' = g
     ELSE /\ pc' = [pc EXCEPT ![t] = "tp_check"]
          /\ loc' = loc
          /\ g' = [g EXCEPT ![t].enh_failed = FALSE,
                            ![t].kw_before = themes[t][loc[t].idx].keywords,
                            ![t].kw_after = << >>]
  /\ UNCHANGED <<fn, runner, env, nreq, payload, opt, cfg, themes, resp>>

\* base_tags = ", ".join(theme.get("keywords", []))
BaseTags(t) == Join(CommaBlank, themes[t][loc[t].idx].keywords)

\* generate_themes after _call_tipo returned generated_tags: the keywords of
\* the theme are replaced when the string is not empty
TipoReturned(t, generated_tags, failed, locals) ==
  LET kw == KeywordsAfterTipo(themes[t][loc[t].idx].keywords, generated_tags)
  IN  /\ themes' = [themes EXCEPT ![t][loc[t].idx].keywords = kw]
      /\ loc' = [locals EXCEPT ![t].idx = @ + 1, ![t].run = 0, ![t].newh = 0]
      /\ pc' = [pc EXCEPT ![t] = "enh_loop"]
      /\ g' = [g EXCEPT ![t].enh_failed = failed, ![t].kw_after = kw]

\* a tagger call that never reuses the model it finds loaded
TipoNeedsLoadAlways(model_path, use_gpu) == TRUE

\* _call_tipo: the test that decides a (re)load
TipoNeedsLoad(model_path, use_gpu) ==
  \/ llama = 0
  \/ llama_model_path # model_path
  \/ llama_use_gpu # use_gpu

\* _call_tipo, up to the test of the cached handle
call_tipo_check(t) ==
  /\ pc[t] = "tp_check"
  /\ IF ~env.llama_installed
       THEN /\ TipoReturned(t, BaseTags(t), TRUE, loc)
            /\ h' = h
       ELSE /\ pc' = [pc EXCEPT ![t] =
                  IF TipoNeedsLoad(cfg[t].tipo_model_path, cfg[t].use_gpu)
                    THEN "tp_unload" ELSE "tp_invoke"]
            /\ g' = [g EXCEPT ![t].released = FALSE]
            /\ h' = Interrupted(h)
            /\ UNCHANGED <<loc, themes>>
  /\ UNCHANGED <<fn, model, env, nreq, payload, opt, cfg, resp>>

\* _call_tipo: self.unload_model() before the load
call_tipo_unload(t) ==
  /\ pc[t] = "tp_unload"
  /\ unload_model
  /\ heap' = Referenced(heap, llama', loc)
  /\ pc' = [pc EXCEPT ![t] = "tp_load"]
  /\ g' = [g EXCEPT ![t].released = (llama # 0)]
  /\ UNCHANGED <<fn, loads, h, env, nreq, payload, opt, cfg, loc, themes, resp>>

\* _call_tipo: Llama(model_path=tipo_path, ...) loads the file; a failure is
\* caught and base_tags returned
call_tipo_load(t) ==
  /\ pc[t] = "tp_load"
  /\ \E loaded \in BOOLEAN :
       IF loaded
         THEN /\ loads' = loads + 1
              /\ heap' = heap \cup
                   {NewLlama(loads + 1, cfg[t].tipo_model_path, cfg[t].use_gpu,
                             TipoCtx, GpuLayers(cfg[t]))}
              /\ loc' = [loc EXCEPT ![t].newh = loads + 1]
              /\ pc' = [pc EXCEPT ![t] = "tp_store"]
              /\ UNCHANGED <<themes, g>>
         ELSE /\ TipoReturned(t, BaseTags(t), TRUE, loc)
              /\ UNCHANGED <<loads, heap>>
  /\ UNCHANGED <<fn, field, h, env, nreq, payload, opt, cfg, resp>>

\* _call_tipo: the new object and its identity key are stored
call_tipo_store(t) ==
  /\ pc[t] = "tp_store"
  /\ llama' = loc[t].newh
  /\ llama_model_path' = cfg[t].tipo_model_path
  /\ llama_use_gpu' = cfg[t].use_gpu
  /\ loc' = [loc EXCEPT ![t].newh = 0]
  /\ heap' = Referenced(heap, llama', loc')
  /\ pc' = [pc EXCEPT ![t] = "tp_invoke"]
  /\ h' = Loaded(h, cfg[t].tipo_model_path, cfg[t].use_gpu)
  /\ UNCHANGED <<fn, loads, env, nreq, payload, opt, cfg, themes, resp, g>>

\* _call_tipo: self._llama(prompt=...) is entered; the TypeError of calling
\* None is caught like any inference error
call_tipo_invoke(t) ==
  /\ pc[t] = "tp_invoke"
  /\ IF llama = 0
       THEN TipoReturned(t, BaseTags(t), TRUE, loc)
       ELSE /\ loc' = [loc EXCEPT ![t].run = llama]
            /\ pc' = [pc EXCEPT ![t] = "tp_run"]
            /\ UNCHANGED <<themes, g>>
  /\ UNCHANGED <<fn, runner, env, nreq, payload, opt, cfg, resp>>

\* _call_tipo: the completion ends; its text is parsed and merged with the
\* base tags, or the exception is caught and base_tags returned
call_tipo_run(t) ==
  /\ pc[t] = "tp_run"
  /\ \/ \E result_text \in TipoOutputs :
          TipoReturned(t, TipoMerged(BaseTags(t), result_text), FALSE, loc)
     \/ TipoReturned(t, BaseTags(t), TRUE, loc)
  /\ heap' = Referenced(heap, llama, loc')
  /\ UNCHANGED <<fn, field, loads, h, env, nreq, payload, opt, cfg, resp>>

\* a teardown that looks at the flag only
UnloadAfterAnyProvider(c) == c.unload_after_generate

\* generate_themes, finally: the condition of the teardown
UnloadAfter(c) == c.unload_after_generate /\ Provider(c) = "llama_cpp"

\* generate_themes: the finally block, then the return or the re-raise
generate_themes_finally(t) ==
  /\ pc[t] = "finally"
  /\ IF UnloadAfter(cfg[t])
       THEN unload_model /\ h' = Interrupted(h)
       ELSE UNCHANGED <<field, h>>
  /\ heap' = Referenced(heap, llama', loc)
  /\ pc' = [pc EXCEPT ![t] = IF loc[t].exc = None THEN "h_respond" ELSE "h_except"]
  /\ loc' = [loc EXCEPT ![t].stage = "none", ![t].model_path = None]
  /\ themes' = [themes EXCEPT ![t] = IF loc[t].exc = None THEN @ ELSE << >>]
  /\ g' = [g EXCEPT ![t].gen_finished = TRUE,
                    ![t].final_unloaded = (UnloadAfter(cfg[t]) /\ llama # 0)]
  /\ UNCHANGED <<fn, loads, env, nreq, payload, opt, cfg, resp>>

\* ------------------------------------------------------------ specification
\* one step of request thread t; P: the payloads a request may carry, J: the
\* texts the extraction call may return
Step(t, P, J) ==
  \/ Orchestrator_handle(t, P)
  \/ ThemeAgent_handle(t)
  \/ ThemeAgent_rule_based(t)
  \/ ThemeAgent_respond(t)
  \/ ThemeAgent_except(t)
  \/ Orchestrator_return(t)
  \/ request_done(t)
  \/ generate_themes(t)
  \/ execute_inference(t)
  \/ call_openai_like(t, J)
  \/ call_llama_cpp_check(t)
  \/ call_llama_cpp_unload(t)
  \/ call_llama_cpp_load(t)
  \/ call_llama_cpp_store(t)
  \/ call_llama_cpp_invoke(t)
  \/ call_llama_cpp_run(t, J)
  \/ generate_themes_parse(t)
  \/ generate_themes_enhance(t)
  \/ generate_themes_loop(t)
  \/ call_tipo_check(t)
  \/ call_tipo_unload(t)
  \/ call_tipo_load(t)
  \/ call_tipo_store(t)
  \/ call_tipo_invoke(t)
  \/ call_tipo_run(t)
  \/ generate_themes_finally(t)

\* Requests handled one at a time.
Next == \E t \in SeqThreads : Step(t, Payloads, JsonTexts)

Spec == Init /\ [][Next]_vars

\* Requests handled concurrently: the web API runs each request in its own
\* worker thread, all on the one cached Orchestrator and LLMModelRunner.
ConcCfgs ==
  { [provider |-> "llama_cpp", model_path |-> "m1", use_gpu |-> "True",
     api_key |-> None, base_url |-> None, tipo_model_path |-> None,
     unload_after_generate |-> FALSE, n_ctx |-> 0, n_gpu_layers |-> 0],
    [provider |-> "llama_cpp", model_path |-> "m2", use_gpu |-> "True",
     api_key |-> None, base_url |-> None, tipo_model_path |-> None,
     unload_after_generate |-> TRUE, n_ctx |-> 0, n_gpu_layers |-> 0],
    [provider |-> "vllm", model_path |-> None, use_gpu |-> "True",
     api_key |-> None, base_url |-> "u", tipo_model_path |-> "tipo",
     unload_after_generate |-> FALSE, n_ctx |-> 0, n_gpu_layers |-> 0] }

ConcPayloads ==
  [count : {[t |-> "int", v |-> 1]}, season : {"summer"}, focus : {focus_bikini},
   has_llm : {TRUE}, llm : ConcCfgs]
    \cup [count : {[t |-> "int", v |-> 1]}, season : {"summer"},
          focus : {focus_bikini}, has_llm : {FALSE}, llm : {NoCfg}]

ConcTexts ==
  { [kind |-> "list", items |-> <<ItemA>>],
    [kind |-> "invalid", items |-> << >>] }

InitConc ==
  /\ Init
  /\ env = [llama_installed |-> TRUE, env_model_path |-> None,
            model_runner |-> TRUE]

NextConc == \E t \in Threads : Step(t, ConcPayloads, ConcTexts)

SpecConc == InitConc /\ [][NextConc]_vars

\* Requests whose llm_config carries the hints n_ctx and n_gpu_layers, handled
\* one at a time: the same model file with and without hints, next to a
\* remote request with a tagger and a rule-based request.
HintCfgs ==
  [provider : {"llama_cpp"}, model_path : {"m1"}, use_gpu : {"True"},
   api_key : {None}, base_url : {None}, tipo_model_path : {None},
   unload_after_generate : {FALSE}, n_ctx : {0, 2048}, n_gpu_layers : {0, 20}]

HintPayloads ==
  [count : {[t |-> "int", v |-> 1]}, season : {"summer"}, focus : {focus_bikini},
   has_llm : {TRUE}, llm : HintCfgs]
    \cup ConcPayloads

InitHints == InitConc

NextHints == \E t \in SeqThreads : Step(t, HintPayloads, ConcTexts)

SpecHints == InitHints /\ [][NextHints]_vars

\* ------------------------------------- functions called on their own
\* count as generate_themes passes it
ParseCounts == 0..MaxCount

InitParse ==
  /\ Quiescent
  /\ fn \in [op : {"parse"}, arg : [text : ParseTexts, count : ParseCounts],
              ret : {<< >>}, done : {FALSE}]

\* self._parse_json_result(raw, count)
parse_call ==
  /\ fn.op = "parse"
  /\ ~fn.done
  /\ fn' = [fn EXCEPT !.ret = parse_text(fn.arg.text, fn.arg.count),
                      !.done = TRUE]
  /\ UNCHANGED pipeline

NextParse == parse_call

SpecParse == InitParse /\ [][NextParse]_vars

\* the symbols of an answer of the tagger model
RawSymbols ==
  {"sky", "Sky", "sunset", "watermark", Comma, Blank, "<|general|>",
   "<|GENERAL|>", Backslash, "("}

RawOutputs == SeqsUpTo(RawSymbols, MaxRaw)

\* keyword lists as _call_tipo splits them out of base_tags
BaseTagLists == SeqsUpTo({<<"sky">>, <<"Sky">>, <<"cloud">>}, MaxTags)

MergeOutputs == TipoOutputs \cup {<<"sky", Comma, "sunset">>, << >>}

InitTipo ==
  /\ Quiescent
  /\ \/ fn \in [op : {"parse_output"}, arg : [base : {<< >>}, raw : RawOutputs],
                 ret : {<< >>}, done : {FALSE}]
     \/ fn \in [op : {"merge"}, arg : [base : BaseTagLists, raw : MergeOutputs],
                 ret : {<< >>}, done : {FALSE}]

\* self._tipo_helper.parse_output(result_text)
tipo_parse_output ==
  /\ fn.op = "parse_output"
  /\ ~fn.done
  /\ fn' = [fn EXCEPT !.ret = parse_output(fn.arg.raw), !.done = TRUE]
  /\ UNCHANGED pipeline

\* the merge of _call_tipo on the split base tags and the parsed output
tipo_merge ==
  /\ fn.op = "merge"
  /\ ~fn.done
  /\ fn' = [fn EXCEPT !.ret = MergeTags(fn.arg.base, parse_output(fn.arg.raw)),
                      !.done = TRUE]
  /\ UNCHANGED pipeline

NextTipo == tipo_parse_output \/ tipo_merge

SpecTipo == InitTipo /\ [][NextTipo]_vars

\* keywords as the extraction returns them
ClassifyKeywords ==
  { <<"bikini">>, <<"beach">>, <<"smile">>, <<"masterpiece">>,
    <<"random_object">>, <<"Beach", "_", "bikini">>, <<"cat_ears">> }

ExampleKeywords ==
  << <<"bikini">>, <<"beach">>, <<"smile">>, <<"masterpiece">>,
     <<"random_object">> >>

\* options of rule-based requests whose season and focus are strings
RuleOptions ==
  [count : 1..MaxCount, season : Seasons \ {None},
   focus : {focus_bikini, <<"thighhighs">>}]

InitTags ==
  /\ Quiescent
  /\ fn \in [op : {"rule_based"},
              arg : [options : RuleOptions, trend_tags : TrendOrders],
              ret : {<< >>}, done : {FALSE}] \cup
            [op : {"classify"},
              arg : [has_library : BOOLEAN,
                     focus : {focus_bikini, <<"bikini">>, <<"original_girl">>},
                     season : Seasons,
                     keywords : SeqsUpTo(ClassifyKeywords, MaxItems)
                                  \cup {ExampleKeywords},
                     mood : {<< >>, << <<"calm">>, <<"cute">> >>}],
              ret : {<< >>}, done : {FALSE}]

\* self._build_prompt_tags_from_keywords(focus, season, keywords, mood)
classify_call ==
  /\ fn.op = "classify"
  /\ ~fn.done
  /\ fn' = [fn EXCEPT !.ret = build_prompt_tags_from_keywords(
                                fn.arg.has_library, fn.arg.focus, fn.arg.season,
                                fn.arg.keywords, fn.arg.mood),
                      !.done = TRUE]
  /\ UNCHANGED pipeline

\* self._generate_rule_based(options, trend_tags, prefs): the prompt_tags of
\* the themes
rule_based_call ==
  /\ fn.op = "rule_based"
  /\ ~fn.done
  /\ fn' = [fn EXCEPT !.ret =
               LET out == generate_rule_based(fn.arg.options, fn.arg.trend_tags)
               IN  [i \in 1..Len(out) |-> out[i].prompt_tags],
                      !.done = TRUE]
  /\ UNCHANGED pipeline

NextTags == classify_call \/ rule_based_call

SpecTags == InitTags /\ [][NextTags]_vars

\* ------------------------------------------------------------------ claims
AfterAgent == {"h_return", "done"}
AfterGenerate == {"h_respond", "h_except", "h_return", "done"}

\* C1: no exception leaves ThemeAgent.handle or Orchestrator.handle; a
\* request in which anything failed (bad count, missing season or focus,
\* provider error, parse error, collaborator exception, unknown request
\* type) is answered ok = false with an error message and no data, a request
\* in which nothing failed is answered ok = true, and every finished request
\* has its AgentResponse.
C1_UniformFailure ==
  \A t \in Threads :
    /\ ~g[t].left_agent
    /\ ~g[t].escaped
    /\ (pc[t] \in AfterAgent /\ g[t].failed) =>
         /\ ~resp[t].ok
         /\ ~resp[t].has_data
         /\ resp[t].data = << >>
         /\ resp[t].error # None
    /\ (pc[t] = "done" /\ g[t].path = "unknown") => ~resp[t].ok
    /\ (pc[t] \in AfterAgent /\ ~g[t].failed) => resp[t].ok
    /\ pc[t] = "done" => resp[t].sent

C1_Witness ==
  \E t \in Threads :
    /\ pc[t] = "done"
    /\ g[t].path = "llm"
    /\ g[t].failed
    /\ resp[t].sent
    /\ ~resp[t].ok
    /\ resp[t].error = "RuntimeError: JSON Parse Failed"

\* C2: a generation request answered ok = true, on the rule-based or the
\* model-backed path, carries at least one theme and at most the requested
\* number of themes.
C2_CountBound ==
  \A t \in Threads :
    (pc[t] = "done" /\ g[t].path \in {"llm", "rule"} /\ resp[t].ok) =>
      /\ Len(resp[t].data) <= g[t].requested
      /\ Len(resp[t].data) >= 1

\* C3: when a _call_llama_cpp call ends right after another one with the
\* same (model_path, use_gpu), the second call loaded nothing, and when the
\* runner was empty before the first call the two calls loaded exactly once.
C3_LoadOnce ==
  h.pair.same =>
    /\ h.pair.second = 0
    /\ h.pair.fresh => h.pair.both = 1

C3_Witness ==
  /\ h.pair.same
  /\ h.pair.fresh
  /\ h.pair.both = 1
  /\ loads = 1

\* C4: at most one Llama object is alive at any time, and when a call is
\* about to construct one (primary inference or tagger) the runner's handle
\* has been released and no Llama object is alive.
C4_ReleaseBeforeLoad ==
  /\ Cardinality(heap) <= 1
  /\ \A t \in Threads :
       pc[t] \in {"lc_load", "tp_load"} => (llama = 0 /\ heap = {})

\* C5: no two requests are inside an inference call on the same Llama object
\* at the same time.
C5_SerializedAccess ==
  \A t1, t2 \in Threads :
    (t1 # t2 /\ loc[t1].run # 0) => loc[t2].run # loc[t1].run

\* C6: with unload_after_generate set and the provider llama_cpp, from the
\* moment generate_themes has returned or raised until the request is over,
\* the runner holds no handle and no identity key, and no Llama object is
\* alive.
C6_UnloadAfterGenerate ==
  \A t \in Threads :
    (/\ pc[t] \in AfterGenerate
     /\ g[t].gen_finished
     /\ cfg[t].unload_after_generate
     /\ Provider(cfg[t]) = "llama_cpp") =>
      /\ llama = 0
      /\ llama_model_path = None
      /\ llama_use_gpu = None
      /\ heap = {}

C6_Witness ==
  \E t \in Threads :
    /\ pc[t] = "h_except"
    /\ g[t].gen_finished
    /\ g[t].final_unloaded
    /\ cfg[t].unload_after_generate
    /\ Provider(cfg[t]) = "llama_cpp"
    /\ llama = 0

\* C7: after a _call_tipo that failed (tagger not loadable, inference or
\* parse error) the theme has the keyword list it had before the call, and
\* the request is answered ok = true.
C7_EnhancementKeepsKeywords ==
  \A t \in Threads :
    g[t].enh_failed =>
      /\ g[t].kw_after = g[t].kw_before
      /\ pc[t] = "done" => resp[t].ok

\* the required field of the selected provider is absent
RequiredFieldAbsent(c) ==
  \/ Provider(c) = "api" /\ c.api_key = None
  \/ Provider(c) = "vllm" /\ c.base_url = None
  \/ Provider(c) = "llama_cpp" /\ ModelPath(c) = None

\* C8: a request whose provider lacks its required field (api_key for api,
\* base_url for vllm, a model path for llama_cpp) never contacts a backend
\* and never attempts a model load.
C8_ConfigurationError ==
  \A t \in Threads :
    (g[t].path = "llm" /\ RequiredFieldAbsent(cfg[t])) =>
      (~g[t].contacted /\ ~g[t].load_tried)

\* C9: a request with a provider other than api, vllm and llama_cpp contacts
\* no backend and loads nothing, leaves the runner's handle and identity key
\* as generate_themes found them, and is answered ok = false with the
\* provider error.
C9_UnknownProvider ==
  \A t \in Threads :
    (/\ g[t].path = "llm"
     /\ LowerSym(IF cfg[t].provider = None THEN default_provider
                 ELSE cfg[t].provider) \notin {"api", "vllm", "llama_cpp"}
     /\ pc[t] \in {"infer", "finally"} \cup AfterGenerate) =>
      /\ ~g[t].contacted
      /\ ~g[t].load_tried
      /\ <<llama, llama_model_path, llama_use_gpu>> = g[t].snap
      /\ pc[t] # "h_respond"
      /\ pc[t] \in AfterAgent =>
           (~resp[t].ok /\ resp[t].error = "ValueError: Unknown provider")

C9_Witness ==
  \E t \in Threads :
    /\ pc[t] = "done"
    /\ g[t].path = "llm"
    /\ cfg[t].provider = "other"
    /\ llama # 0
    /\ ~resp[t].ok
    /\ resp[t].error = "ValueError: Unknown provider"

\* C10: a request whose extraction output parsed to an empty normalized
\* list is answered ok = false.
C10_EmptyResultFails ==
  \A t \in Threads :
    (g[t].empty_parse /\ pc[t] = "done") => ~resp[t].ok

\* the decoded dicts a finished parse call normalized, in order
ParsedDicts ==
  LET data == SliceCount(json_value(fn.arg.text).items, fn.arg.count)
  IN  SelectSeq(data, LAMBDA item : item.isdict)

ParseReturned == fn.op = "parse" /\ fn.done /\ fn.ret.ok

\* C11: every normalized item has a non-empty title, and the title is
\* "Untitled" whenever the title of the source item is missing or is not a
\* string.
C11_TitleNormalized ==
  ParseReturned =>
    /\ Len(fn.ret.themes) = Len(ParsedDicts)
    /\ \A i \in 1..Len(fn.ret.themes) :
         /\ fn.ret.themes[i].title # << >>
         /\ ParsedDicts[i].title.t # "str" => fn.ret.themes[i].title = Untitled

\* the theme of {"title":"A","short_concept":"x","keywords":[],"mood":[]}
ThemeA ==
  [title |-> <<"A">>, short_concept |-> <<"x">>, keywords |-> << >>,
   mood |-> << >>]

ParseFailed(ret) == ~ret.ok /\ ret.exc = "RuntimeError: JSON Parse Failed"

\* C12: the truncated input [{"title":"A",...,"mood":[]},{"title":"B" has one
\* fixed outcome, the same for every count: exactly one theme, titled "A", or
\* a parse error; nothing else.
C12_TruncatedOutcome ==
  (fn.op = "parse" /\ fn.done /\ fn.arg.text = TruncatedInput) =>
    /\ fn.ret.ok => fn.ret.themes = <<ThemeA>>
    /\ ~fn.ret.ok => ParseFailed(fn.ret)
    /\ \A c \in ParseCounts : parse_text(TruncatedInput, c) = fn.ret

C12_Witness ==
  /\ fn.op = "parse" /\ fn.done /\ fn.arg.text = TruncatedInput
  /\ fn.arg.count = MaxCount
  /\ ParseFailed(fn.ret)

NoDuplicates(l) == \A i, j \in 1..Len(l) : l[i] = l[j] => i = j
FirstIndex(l, x) == MinOf({i \in 1..Len(l) : l[i] = x})
\* l lists its elements in the order in which they first occur in from
InOrderOf(l, from) ==
  \A i, j \in 1..Len(l) : i < j => FirstIndex(from, l[i]) < FirstIndex(from, l[j])

MergeDone == fn.op = "merge" /\ fn.done

\* C13: the merge yields the original keywords first, lower-cased, in their
\* order and de-duplicated case-insensitively, then each new tag not already
\* present, in the order produced; the result has no duplicates;
\* ["sky","Sky","cloud"] with ["sky","sunset"] gives ["sky","cloud","sunset"];
\* merging the result again with the same new tags leaves it unchanged.
C13_Merge ==
  MergeDone =>
    LET new == parse_output(fn.arg.raw)
        low == [i \in 1..Len(fn.arg.base) |-> Lower(fn.arg.base[i])]
        k == Cardinality(Elems(low))
        old_part == SubSeq(fn.ret, 1, k)
        new_part == SubSeq(fn.ret, k + 1, Len(fn.ret))
    IN  /\ Len(fn.ret) >= k
        /\ NoDuplicates(fn.ret)
        /\ Elems(old_part) = Elems(low)
        /\ InOrderOf(old_part, low)
        /\ Elems(new_part) = Elems(new) \ Elems(low)
        /\ InOrderOf(new_part, new)
        /\ (fn.arg.base = <<<<"sky">>, <<"Sky">>, <<"cloud">>>>
              /\ new = <<<<"sky">>, <<"sunset">>>>)
             => fn.ret = <<<<"sky">>, <<"cloud">>, <<"sunset">>>>
        /\ MergeTags(fn.ret, new) = fn.ret

C13_Witness ==
  /\ MergeDone
  /\ fn.arg.base = <<<<"sky">>, <<"Sky">>, <<"cloud">>>>
  /\ fn.arg.raw = <<"sky", Comma, "sunset">>
  /\ fn.ret = <<<<"sky">>, <<"cloud">>, <<"sunset">>>>

\* C14: for every raw output, the list parse_output returns contains no term
\* of the ban-list and no section-delimiter token, is all lower-case and has
\* no duplicates; of one banned and one valid term only the valid one remains.
C14_ParsedClean ==
  (fn.op = "parse_output" /\ fn.done) =>
    /\ \A i \in 1..Len(fn.ret) :
         /\ fn.ret[i] \notin BAN_TAGS
         /\ Elems(fn.ret[i]) \cap SPECIAL_TOKENS = {}
         /\ Lower(fn.ret[i]) = fn.ret[i]
    /\ NoDuplicates(fn.ret)
    /\ fn.arg.raw = <<"watermark", Comma, "sky">> => fn.ret = <<<<"sky">>>>

\* C15: classifying ["bikini","beach","smile","masterpiece","random_object"]
\* yields clothing=["bikini"], setting=["beach"], expression=["smile"],
\* artistic=["masterpiece"], object=["random_object"].
C15_ClassifierExample ==
  (fn.op = "classify" /\ fn.done /\ fn.arg.keywords = ExampleKeywords) =>
    /\ fn.ret.clothing = << <<"bikini">> >>
    /\ fn.ret.setting = << <<"beach">> >>
    /\ fn.ret.expression = << <<"smile">> >>
    /\ fn.ret.artistic = << <<"masterpiece">> >>
    /\ fn.ret.object = << <<"random_object">> >>

\* a rule-based request whose season and focus are strings has been answered
RuleBasedAnswered(t) ==
  /\ g[t].path = "rule"
  /\ pc[t] \in AfterAgent
  /\ opt[t].season # None
  /\ opt[t].focus # focus_none

ChoosesPath(t) == pc[t] = "handle" /\ pc'[t] \in {"gen", "rule"}

\* C17: handle takes the model-backed path if and only if a model runner is
\* configured and the request carries an inference configuration; otherwise
\* it takes the rule-based path, which makes no call to the model runner and
\* no inference call.
C17_PathChoice ==
  /\ [][\A t \in SeqThreads :
          ChoosesPath(t) =>
            /\ pc'[t] = "gen" <=> (env.model_runner /\ payload[t].has_llm)
            /\ pc'[t] = "rule" <=> ~(env.model_runner /\ payload[t].has_llm)]_vars
  /\ [](\A t \in SeqThreads :
          g[t].path = "rule" =>
            /\ g[t].calls = << >>
            /\ ~g[t].contacted
            /\ ~g[t].load_tried
            /\ ~g[t].gen_finished)

C17_Witness ==
  /\ pc[1] = "done"
  /\ g[1].path = "rule"
  /\ env.model_runner
  /\ resp[1].ok
  /\ g[1].calls = << >>

\* the identity key of the call of thread t that decided to load a model
LoadingKey(t) ==
  IF pc[t] = "lc_unload" THEN <<loc[t].model_path, cfg[t].use_gpu>>
  ELSE <<cfg[t].tipo_model_path, cfg[t].use_gpu>>

DecidedToLoad(t) == pc[t] \in {"lc_unload", "tp_unload"}

\* C18 as stated: a load occurs only at a call whose identity key differs from
\* the key of the model loaded before it; a call with the key of the
\* previously loaded model never reloads.
C18_LoadOnlyOnNewKey ==
  \A t \in SeqThreads :
    DecidedToLoad(t) => LoadingKey(t) # <<h.last_path, h.last_gpu>>

\* C18 amended: a load occurs only at a call that finds no model held or
\* whose identity key differs from the key the runner holds at that moment;
\* a call with the key of the model still held never reloads. The number of
\* loads changes in no other step.
C18_LoadOnlyOnKeyChange ==
  /\ [](\A t \in SeqThreads :
          DecidedToLoad(t) =>
            llama = 0 \/ LoadingKey(t) # <<llama_model_path, llama_use_gpu>>)
  /\ [][loads' # loads =>
          /\ loads' = loads + 1
          /\ \E t \in SeqThreads :
               /\ pc[t] \in {"lc_load", "tp_load"}
               /\ pc'[t] \in {"lc_store", "tp_store"}]_vars

\* a model is loaded again under the key of the model unloaded before it
C18_Witness ==
  /\ pc[1] = "lc_store"
  /\ h.last_path = loc[1].model_path
  /\ h.last_gpu = cfg[1].use_gpu
  /\ llama = 0
  /\ loads >= 2

\* a primary inference call of thread t has been issued and has not ended
InPrimaryCall(t) ==
  pc[t] \in {"openai", "lc_check", "lc_unload", "lc_load", "lc_store",
             "lc_invoke", "lc_run"}

\* generate_themes of thread t is past both primary calls
PastPrimaryCalls(t) ==
  pc[t] \in {"parse", "enh_check", "enh_loop", "tp_check", "tp_unload",
             "tp_load", "tp_store", "tp_invoke", "tp_run"}

\* text occurs in prompt as it is
Embeds(prompt, text) ==
  \E i \in 1..(Len(prompt) + 1) :
    /\ i + Len(text) - 1 <= Len(prompt)
    /\ SubSeq(prompt, i, i + Len(text) - 1) = text

\* C19: a model-backed request issues exactly two primary inference calls in
\* strict sequence through _execute_inference with the same provider: the
\* ideation prompt, then the extraction prompt, which embeds the raw text the
\* ideation call returned; the extraction call never starts before the
\* ideation call has returned and is not issued if the ideation call fails.
C19_TwoCallsInSequence ==
  \A t \in SeqThreads :
    LET c == g[t].calls
    IN  /\ Len(c) <= 2
        /\ Len(c) >= 1 => c[1].stage = "ideation"
        /\ Len(c) = 2 => c[2].stage = "extraction" /\ c[2].provider = c[1].provider
        /\ PastPrimaryCalls(t) => Len(c) = 2 /\ loc[t].returned = 2
        /\ (InPrimaryCall(t) /\ Len(c) = 1) =>
             /\ loc[t].returned = 0
             /\ loc[t].prompt = build_ideation_prompt(opt[t])
        /\ (InPrimaryCall(t) /\ Len(c) = 2) =>
             /\ loc[t].returned = 1
             /\ loc[t].prompt[1] = "Source Text:"
             /\ Embeds(loc[t].prompt, loc[t].raw_text)
        /\ (pc[t] = "finally" /\ loc[t].returned = 0) => Len(c) <= 1

C19_Witness ==
  /\ InPrimaryCall(1)
  /\ Len(g[1].calls) = 2
  /\ loc[1].raw_text # << >>
  /\ Embeds(loc[1].prompt, loc[1].raw_text)

\* the stage orders of a model-backed request, without and with enhancement
PlainOrder == <<"parsed", "assembled">>
EnhancedOrder == <<"parsed", "enhancement", "enhanced", "assembled">>

IsPrefix(l, of) == Len(l) <= Len(of) /\ l = SubSeq(of, 1, Len(l))

InEnhancement(t) ==
  pc[t] \in {"enh_loop", "tp_check", "tp_unload", "tp_load", "tp_store",
             "tp_invoke", "tp_run"}

\* C20: in a model-backed request the stages run in the order extraction,
\* (optional) enhancement, classification, assembly: enhancement starts only
\* after the extraction output was parsed, no theme is classified or
\* assembled before the enhancement of all themes has finished, and when the
\* extraction or the parsing fails neither enhancement nor classification
\* runs.
C20_StageOrder ==
  \A t \in SeqThreads :
    g[t].path = "llm" =>
      /\ IsPrefix(g[t].stages, PlainOrder) \/ IsPrefix(g[t].stages, EnhancedOrder)
      /\ g[t].stages # << >> => Len(g[t].calls) = 2
      /\ InEnhancement(t) => g[t].stages = <<"parsed", "enhancement">>
      /\ resp[t].has_data =>
           /\ g[t].stages \in {PlainOrder, EnhancedOrder}
           /\ g[t].gen_finished
           /\ \A i \in 1..Len(resp[t].data) :
                /\ resp[t].data[i].raw_keywords = themes[t][i].keywords
                /\ resp[t].data[i].prompt_tags.object
                     = SelectSeq(Dedup(themes[t][i].keywords),
                                 LAMBDA kw : CategoryOf(kw) = "object")
      /\ (pc[t] \in AfterGenerate /\ "parsed" \notin Elems(g[t].stages)) =>
           /\ g[t].stages = << >>
           /\ pc[t] # "h_respond"
           /\ ~resp[t].has_data

C20_Witness ==
  /\ pc[1] = "done"
  /\ g[1].path = "llm"
  /\ g[1].stages = EnhancedOrder
  /\ Len(resp[1].data) = 2
  /\ g[1].kw_after # g[1].kw_before
  /\ resp[1].data[2].raw_keywords = g[1].kw_after

\* the Llama objects alive that a primary call / a tagger call constructed
PrimaryModels == {o \in heap : o.n_ctx = MainCtx}
TaggerModels == {o \in heap : o.n_ctx = TipoCtx}

\* C21: in a request whose primary provider is llama_cpp, from the moment the
\* enhancement has started no primary model is alive: the runner's handle is
\* empty or holds the tagger model, the handle is empty when the tagger model
\* is about to be constructed, and a primary model and a tagger model are
\* never alive together.
C21_PrimaryUnloadedFirst ==
  /\ \A t \in SeqThreads :
       (InEnhancement(t) /\ Provider(cfg[t]) = "llama_cpp") =>
         /\ PrimaryModels = {}
         /\ llama # 0 => llama_model_path = cfg[t].tipo_model_path
         /\ pc[t] = "tp_load" => (llama = 0 /\ heap = {})
  /\ (\E t \in SeqThreads : Provider(cfg[t]) = "llama_cpp") =>
       (PrimaryModels = {} \/ TaggerModels = {})

\* the primary model was loaded for the request, and its tagger model is now
\* the only model alive
C21_Witness ==
  /\ pc[1] = "tp_run"
  /\ Provider(cfg[1]) = "llama_cpp"
  /\ g[1].snap[1] = 0
  /\ loads = 2
  /\ TaggerModels # {}
  /\ PrimaryModels = {}

\* the theme objects of the arrays that are cut off
ThemeToks == {TokA, TokB}

\* an array cut off after the complete objects done: inside the next
\* object, after the comma, or right before the closing bracket
TruncatedAfter(done, next) ==
  LET rest == <<Punct(",")>> \o next
  IN  {<<Punct("[")>> \o Join(<<Punct(",")>>, done) \o cut :
         cut \in Prefixes(rest) \ {rest}}

\* C22: for an array cut off after at least one complete theme object, the
\* repair (trim to the last complete object, close the array, parse once
\* more) returns the complete objects, normalized.
C22_RepairRecovers ==
  (fn.op = "parse" /\ fn.done) =>
    \A done \in SeqsUpTo(ThemeToks, MaxItems - 1) \ {<< >>}, next \in ThemeToks :
      fn.arg.text \in TruncatedAfter(done, next) =>
        /\ fn.ret.ok
        /\ fn.ret.themes = parse_text(TArr(done), fn.arg.count).themes

\* the object items of the decoded array, wherever they sit in it
AllDicts == SelectSeq(json_value(fn.arg.text).items, LAMBDA item : item.isdict)

\* C23: the result is the normalized object items of the array, cut to the
\* first count of them: with at least count object items in the array,
\* exactly count themes are returned, wherever the other items sit.
C23_CountAfterNormalizing ==
  (ParseReturned /\ fn.arg.count >= 1) =>
    /\ fn.ret.themes
         = NormalizeAll(SubSeq(AllDicts, 1, Min(Len(AllDicts), fn.arg.count)))
    /\ Len(AllDicts) >= fn.arg.count => Len(fn.ret.themes) = fn.arg.count

Categories ==
  {"clothing", "mood", "setting", "expression", "action", "artistic", "object"}

\* l holds every entry of ins once, in the order of first occurrence in ins
IsFirstSeen(l, ins) ==
  /\ NoDuplicates(l)
  /\ Elems(l) = Elems(ins)
  /\ InOrderOf(l, ins)

\* what _build_prompt_tags puts into each category of base, in this order
Inserted(base, focus, season_setting, season_mood, motifs, extra_motifs) ==
  [clothing |-> base.clothing \o <<focus>> \o motifs,
   mood |-> base.mood \o season_mood,
   setting |-> base.setting \o <<season_setting>>,
   expression |->
     IF base.expression = << >> THEN << <<"smile">>, <<"blush">> >>
     ELSE base.expression,
   action |->
     IF base.action = << >> THEN << <<"looking_at_viewer">> >> ELSE base.action,
   artistic |->
     IF base.artistic = << >>
       THEN << <<"masterpiece">>, <<"best_quality">>, <<"soft_lighting">> >>
     ELSE base.artistic,
   object |-> base.object \o extra_motifs]

\* the keywords of one category, in the order of the list
KeywordsOf(keywords, c) == SelectSeq(keywords, LAMBDA kw : CategoryOf(kw) = c)

\* what a model-backed theme's categories receive, in this order
InsertedFromKeywords(a) ==
  LET tmpl == get_base_prompt_template(a.has_library)
      base == [tmpl EXCEPT
                 !.clothing = @ \o <<a.focus>> \o KeywordsOf(a.keywords, "clothing"),
                 !.setting = @ \o KeywordsOf(a.keywords, "setting")
                               \o (IF a.season # None /\ a.season # "any"
                                     THEN << <<a.season>> >> ELSE << >>),
                 !.object = @ \o KeywordsOf(a.keywords, "object"),
                 !.mood = @ \o a.mood]
  IN  Inserted(base, a.focus, season_presets(a.season).setting,
               season_presets(a.season).mood, << >>, << >>)

\* what the i-th rule-based theme's categories receive
InsertedRuleBased(a, i) ==
  Inserted(get_base_prompt_template(TRUE), a.options.focus,
           season_presets(a.options.season).setting,
           season_presets(a.options.season).mood, favorite_motifs,
           ExtraMotifs(a.trend_tags, i - 1))

\* C24: every category list of the prompt_tags of a theme, model-backed or
\* rule-based, holds each entry once, in the order in which the entries were
\* first inserted, whatever duplicates there are among template, focus,
\* season, preferences, trend tags, keywords and mood.
C24_UniqueInOrder ==
  /\ (fn.op = "classify" /\ fn.done) =>
       \A c \in Categories : IsFirstSeen(fn.ret[c], InsertedFromKeywords(fn.arg)[c])
  /\ (fn.op = "rule_based" /\ fn.done) =>
       /\ Len(fn.ret) = fn.arg.options.count
       /\ \A i \in 1..Len(fn.ret), c \in Categories :
            IsFirstSeen(fn.ret[i][c], InsertedRuleBased(fn.arg, i)[c])

\* a keyword repeats the focus, another keyword repeats itself, and a mood
\* of the model repeats one of the template
C24_Witness ==
  /\ fn.op = "classify" /\ fn.done
  /\ fn.arg.has_library
  /\ fn.arg.focus = <<"bikini">>
  /\ fn.arg.keywords = << <<"bikini">>, <<"bikini">> >>
  /\ <<"cute">> \in Elems(fn.arg.mood)
  /\ fn.ret.clothing = << <<"bikini">> >>

\* the terms of the category tests, in their priority order
ClothingTerms == {"bikini", "swimsuit", "uniform"}
SettingTerms == {"beach", "street", "room", "stage"}

HasTerm(kw, terms) == Elems(Lower(kw)) \cap terms # {}

PriorityCategory(kw) ==
  IF HasTerm(kw, ClothingTerms) THEN "clothing"
  ELSE IF HasTerm(kw, SettingTerms) THEN "setting"
  ELSE "object"

BeachBikini == <<"Beach", "_", "bikini">>

\* C25: each keyword is put into exactly one category, the first in the
\* order clothing, setting whose terms it contains, and object when it
\* contains none; it is in no other category unless the template, the
\* focus, the season or the mood put the same entry there. A keyword with a
\* clothing and a setting term ("Beach_bikini") is in clothing and not in
\* setting.
C25_FirstMatchWins ==
  (fn.op = "classify" /\ fn.done) =>
    \A i \in 1..Len(fn.arg.keywords) :
      LET kw == fn.arg.keywords[i]
          cat == PriorityCategory(kw)
          others == InsertedFromKeywords([fn.arg EXCEPT !.keywords = << >>])
      IN  /\ kw \in Elems(fn.ret[cat])
          /\ \A c \in Categories \ {cat} :
               kw \in Elems(fn.ret[c]) => kw \in Elems(others[c])
          /\ kw = BeachBikini =>
               /\ kw \in Elems(fn.ret.clothing)
               /\ kw \notin Elems(fn.ret.setting)
               /\ kw \notin Elems(fn.ret.object)

C25_Witness ==
  /\ fn.op = "classify" /\ fn.done
  /\ fn.arg.keywords = <<BeachBikini, <<"random_object">> >>
  /\ fn.arg.focus = <<"original_girl">>
  /\ fn.ret.clothing = << <<"original_girl">>, BeachBikini >>
  /\ fn.ret.object = << <<"random_object">> >>

\* generate_themes of thread t is in or between its primary inference calls,
\* or has both behind it and has not started the enhancement
AroundPrimaryCalls(t) == pc[t] \in {"infer", "openai", "parse", "enh_check"}

\* C26: while a request with provider api or vllm makes its primary
\* inference calls, the runner's handle, cached model path and cached GPU
\* flag stay what they were when generate_themes began, and no Llama object
\* is constructed or dropped.
C26_RemoteCallsKeepModel ==
  \A t \in SeqThreads :
    (Provider(cfg[t]) \in {"api", "vllm"} /\ AroundPrimaryCalls(t)) =>
      /\ <<llama, llama_model_path, llama_use_gpu>> = g[t].snap
      /\ \A o \in heap : o.id = llama

\* both remote calls have returned and the model an earlier request loaded
\* is still held
C26_Witness ==
  /\ Provider(cfg[1]) = "vllm"
  /\ pc[1] = "parse"
  /\ g[1].contacted
  /\ Len(g[1].calls) = 2
  /\ llama # 0
  /\ llama_model_path = "m1"
  /\ g[1].snap = <<llama, "m1", llama_use_gpu>>

\* C27: with requests handled one at a time, in every state, also after a
\* model load or an inference raised, the handle is empty exactly when the
\* cached model path and GPU flag are empty, and a resident handle is the
\* Llama object that was constructed with the cached (model_path, use_gpu).
C27_KeyAgreesWithHandle ==
  /\ llama = 0 <=> (llama_model_path = None /\ llama_use_gpu = None)
  /\ llama = 0 => (llama_model_path = None /\ llama_use_gpu = None)
  /\ llama # 0 =>
       /\ llama_model_path # None
       /\ llama_use_gpu # None
       /\ \E o \in heap :
            /\ o.id = llama
            /\ o.path = llama_model_path
            /\ o.gpu = llama_use_gpu

\* a model was resident, a call with another key unloaded it, and the load
\* of the new model raised
C27_Witness ==
  /\ pc[1] = "finally"
  /\ loc[1].exc = "Exception: model load failed"
  /\ g[1].released
  /\ loads >= 1
  /\ llama = 0
  /\ llama_model_path = None

\* generate_themes of thread t has returned, and the last tagger call of its
\* enhancement ran on the loaded tagger model and returned its tags
EnhancedByTagger(t) ==
  /\ pc[t] \in AfterGenerate
  /\ g[t].gen_finished
  /\ "enhanced" \in Elems(g[t].stages)
  /\ ~g[t].enh_failed
  /\ g[t].kw_after # << >>

\* C28: the teardown of unload_after_generate applies to the provider
\* llama_cpp only: after generate_themes returned for a request with provider
\* api or vllm, a tagger path and unload_after_generate set, the tagger model
\* loaded during the enhancement is still resident.
C28_TaggerStaysResident ==
  \A t \in SeqThreads :
    (/\ Provider(cfg[t]) \in {"api", "vllm"}
     /\ cfg[t].unload_after_generate
     /\ EnhancedByTagger(t)) =>
      /\ ~g[t].final_unloaded
      /\ llama # 0
      /\ llama_model_path = cfg[t].tipo_model_path
      /\ \E o \in heap : o.id = llama /\ o.n_ctx = TipoCtx

C28_Witness ==
  /\ Provider(cfg[1]) = "api"
  /\ cfg[1].unload_after_generate
  /\ EnhancedByTagger(1)
  /\ pc[1] = "done"
  /\ resp[1].ok
  /\ llama # 0
  /\ llama_model_path = "tipo"

\* the Llama object with this id is alive and was constructed with this key
LoadedWith(id, model_path, use_gpu) ==
  \E o \in heap : o.id = id /\ o.path = model_path /\ o.gpu = use_gpu

\* C29: with two requests running on the shared runner, a request past the
\* load test of _call_llama_cpp or _call_tipo finds a handle when it invokes
\* the model, and the model it runs on is one loaded with its own
\* (model_path, use_gpu).
C29_InvokesOwnModel ==
  \A t \in Threads :
    /\ pc[t] \in {"lc_invoke", "tp_invoke"} => llama # 0
    /\ pc[t] = "lc_invoke" =>
         LoadedWith(llama, loc[t].model_path, cfg[t].use_gpu)
    /\ pc[t] = "lc_run" =>
         LoadedWith(loc[t].run, loc[t].model_path, cfg[t].use_gpu)
    /\ pc[t] = "tp_invoke" =>
         LoadedWith(llama, cfg[t].tipo_model_path, cfg[t].use_gpu)
    /\ pc[t] = "tp_run" =>
         LoadedWith(loc[t].run, cfg[t].tipo_model_path, cfg[t].use_gpu)

\* the Llama object the runner holds
Resident == CHOOSE o \in heap : o.id = llama

\* the call of thread t is at the load test and the runner holds a model
\* with the call's (model_path, use_gpu)
SameKeyAtCheck(t) ==
  /\ pc[t] = "lc_check"
  /\ env.llama_installed
  /\ ModelPath(cfg[t]) # None
  /\ llama # 0
  /\ llama_model_path = ModelPath(cfg[t])
  /\ llama_use_gpu = cfg[t].use_gpu

\* C30: the identity key is (model_path, use_gpu) and nothing else: a
\* _call_llama_cpp call that finds a model held under its key goes on to the
\* invocation without unloading or loading, whatever its n_ctx and
\* n_gpu_layers, and a Llama object keeps the n_ctx and n_gpu_layers it was
\* constructed with for as long as it is alive.
C30_HintsNotInKey ==
  /\ [][\A t \in SeqThreads :
          SameKeyAtCheck(t) =>
            /\ pc'[t] = "lc_invoke"
            /\ UNCHANGED <<llama, llama_model_path, llama_use_gpu, heap, loads>>]_vars
  /\ [][\A o \in heap : \A n \in heap' : n.id = o.id => n = o]_vars
  /\ [](\A t \in SeqThreads :
          (pc[t] = "lc_run" /\ ~g[t].load_tried) =>
            /\ loads = g[t].call_start
            /\ LoadedWith(loc[t].run, loc[t].model_path, cfg[t].use_gpu))

\* the second call asks for another context size and other GPU layers than
\* the resident model was loaded with, and runs on that model
C30_Witness ==
  /\ pc[1] = "lc_run"
  /\ ~g[1].load_tried
  /\ loads = 1
  /\ loc[1].run = llama
  /\ Resident.n_ctx # ContextSize(cfg[1])
  /\ Resident.n_gpu_layers # GpuLayers(cfg[1])

====
